---- MODULE Spec2Model ----
(***************************************************************************)
(* State-machine model of the harmony server core:                         *)
(*   - the call coordinator (crates/harmony/src/services/webrtc.rs:        *)
(*     ActiveCall over the shared key-value store),                        *)
(*   - the pending-request rendezvous (crates/harmony/src/request.rs and   *)
(*     ActiveCall::get_token / the "nodes" bus consumer),                  *)
(*   - the RPC connection engine (crates/rapid/src/socket.rs).             *)
(* Each part has its own specification over the same variables; the        *)
(* variables of the other parts stay at their initial value.               *)
(***************************************************************************)
EXTENDS Integers, Sequences, FiniteSets, TLC

(***************************************************************************)
(* Bounds of the model.                                                    *)
(***************************************************************************)
\* ULIDs minted by ActiveCall::create (ulid::Ulid::new() is unique per call).
MaxCalls == 2
\* longest member list kept in a record (join_user pushes without de-dup).
MaxMembers == 2
\* coordinator operations begun in one behaviour.
MaxOps == 4

Tasks == {"t1", "t2"}
Users == {"U1", "U2"}
Spaces == {"S"}
Channels == {"C"}

VARIABLES
    redis,      \* the shared key-value store: key -> stored bytes (or Nil)
    history,    \* the document store's call history: call id -> snapshot
    nextUlid,   \* number of ULIDs minted so far
    opsBegun,   \* per task: number of coordinator operations it has begun
    pc,         \* per task: the await point the task is suspended at
    op,         \* per task: the operation being run and its arguments
    self,       \* per task: the ActiveCall value the task holds (&mut self)
    result,     \* per task: what the last finished operation returned
    histTasks,  \* the 30 s snapshot tasks spawned by create, by (space, channel, id)
    active,     \* history: calls returned by a successful create, not yet ended
    overlap,    \* history: per task, the tasks whose create overlapped its create
    sawActive,  \* history: per task, the calls active in the channel when its create began
    snapshots   \* history: (id of the call whose create spawned a snapshot task,
                \* id of another call that the task wrote a snapshot for)

callVars == <<redis, history, nextUlid, opsBegun, pc, op, self, result, histTasks,
              active, overlap, sawActive, snapshots>>

\* The pending-request rendezvous.
VARIABLES
    REQUESTS,   \* the pending-request table: "{call_id}:{session_id}" -> Request
    notify,     \* per Notify object (one per Request::new): its stored permit
    nextNotify, \* number of Request::new calls so far
    bus,        \* the "nodes" channel: events not yet taken by the consumer
    published,  \* history: every event the server has published on "nodes"
    tpc,        \* per task: where its get_token is suspended
    targ,       \* per task: the arguments of its get_token
    request,    \* per task: the local `request` of get_token
    tret        \* per task: what get_token returned (or that it panicked)

tokenVars == <<REQUESTS, notify, nextNotify, bus, published, tpc, targ, request, tret>>

\* The RPC connection engine.
VARIABLES
    clients,    \* the session registry: connection-id -> RpcClient (or none)
    socket,     \* per connection: the outbound channel (s, r) of start_client
    wire,       \* per connection: the frames the write pump has written
    pump,       \* per connection: the write-pump task
    inbound,    \* per connection: frames the client has sent, not yet read
    stream,     \* per connection: the client's side of the stream
    reader,     \* per connection: where start_client / its read loop stands
    cur,        \* per connection: the frame handle_packet is handling (or panicked on)
    heartbeat,  \* per connection: the tick channel (tx, rx)
    supervisor, \* per connection: the heartbeat supervisor task
    timer,      \* per connection: time since the supervisor's timeout began
    nextId,     \* number of ids minted by generate_id
    emits,      \* per connection: sends spawned by emit_one, not yet run
    emitted,    \* history: the user ids of the emit_to_id calls so far
    sent,       \* history: per connection, number of frames the client sent
    idle,       \* history: per connection, time since its last Heartbeat was taken
    evictedAt,  \* history: per connection, `sent` when the supervisor evicted it
    store,      \* the writes the method handlers have made: (method, caller id)
    quiet       \* history: per connection, time since the client last sent a
                \* Heartbeat; HEARTBEAT_TIMEOUT once it has let that long pass

socketVars == <<clients, socket, wire, pump, inbound, stream, reader, cur, heartbeat,
                supervisor, timer, nextId, emits, emitted, sent, idle, evictedAt,
                store, quiet>>

\* The media-node directory.
VARIABLES
    AVAILABLE_NODES, \* the directory: node id -> Node (or none)
    now,             \* the clock, in milliseconds
    sleepUntil,      \* when the sweeper's sleep ends
    swept,           \* history: the nodes the sweeper has removed
    seen             \* history: the last Description, Ping or Disconnect taken,
                     \* and whether its node was in the directory then

nodeVars == <<AVAILABLE_NODES, now, sleepUntil, swept, seen>>

\* The connection to the key-value store.
VARIABLES
    refused     \* the store refuses every command (its connection is down)

storeVars == <<refused>>

\* The users collection and the tasks that run add_friend / remove_friend.
VARIABLES
    users,      \* the collection: user id -> the affinities of the document
    fpc,        \* per calling user: the await point its operation is at
    fop,        \* per calling user: the operation and the friend id
    fself,      \* per calling user: the affinities of the User it loaded (&self)
    fret,       \* per calling user: what its last operation returned
    flog,       \* history: the operations that have returned, in order
    foverlap    \* history: per calling user, another operation ran during its own

friendVars == <<users, fpc, fop, fself, fret, flog, foverlap>>

\* One frame going through encode and decode (services/encryption.rs).
VARIABLES
    buffer,     \* the bytes handed to encode
    compress,   \* the compress flag, the same on both sides
    encrypt,    \* the key (None: no key), the same on both sides
    nonce,      \* what random_number returns to encode
    encoded,    \* what encode returned
    decoded,    \* what decode returned
    cpc         \* "start", "encoded", "decoded", or "panicked"

codecVars == <<buffer, compress, encrypt, nonce, encoded, decoded, cpc>>

\* The guards of the session registry: the read loop of start_client and the
\* heartbeat supervisor, with every await of the read loop a step of its own.
VARIABLES
    slot,       \* per connection: its session is in the registry
    holds,      \* per connection: the guard its read loop holds on the entry
    loop,       \* per connection: the await the read loop is at
    watch,      \* per connection: where the heartbeat supervisor stands
    taken       \* number of frames the read loops have taken

guardVars == <<slot, holds, loop, watch, taken>>

\* What each part leaves alone.
notCalls == <<tokenVars, socketVars, nodeVars, storeVars, friendVars, codecVars,
              guardVars>>
notToken == <<callVars, socketVars, nodeVars, storeVars, friendVars, codecVars,
              guardVars>>
notSocket == <<callVars, tokenVars, nodeVars, storeVars, friendVars, codecVars,
               guardVars>>
notNodes == <<callVars, socketVars, storeVars, friendVars, codecVars,
              guardVars>>
notStore == <<callVars, tokenVars, socketVars, nodeVars, friendVars, codecVars,
              guardVars>>
notFriends == <<callVars, tokenVars, socketVars, nodeVars, storeVars, codecVars,
                guardVars>>
notCodec == <<callVars, tokenVars, socketVars, nodeVars, storeVars, friendVars,
              guardVars>>
notGuards == <<callVars, tokenVars, socketVars, nodeVars, storeVars, friendVars,
               codecVars>>

(***************************************************************************)
(* Values.                                                                 *)
(***************************************************************************)
\* struct ActiveCall { id, name, members, space_id, channel_id }; name is
\* always None in this code and is left out.
ActiveCall(id, members, space, channel) ==
    [id |-> id, members |-> members, space_id |-> space, channel_id |-> channel]

NoCall == ActiveCall(0, <<>>, "", "")

\* format!("call:{}:{}", space, channel)
WitnessKey(space, channel) == <<"call", space, channel>>
\* format!("call:{}", id)
CanonicalKey(id) == <<"call", id>>

Keys == {WitnessKey(s, c) : s \in Spaces, c \in Channels}
            \cup {CanonicalKey(i) : i \in 1..(MaxCalls + 1)}

\* redis::Value, the replies of the store.
Nil == [t |-> "Nil"]
\* no reply: the command ended with a RedisError of the connection.
IoError == [t |-> "IoError"]
Okay == [t |-> "Okay"]
IntReply(n) == [t |-> "Int", n |-> n]
BulkString(bytes) == [t |-> "BulkString", bytes |-> bytes]

\* ToRedisArgs for ActiveCall: serialize(self) = MessagePack struct map.
\* The first byte of a 5-field struct map is 0x85, which is no UTF-8 lead byte.
write_redis_args(call) == [fmt |-> "msgpack", call |-> call]
\* ToRedisArgs for String: the UTF-8 bytes of the string.
StringArgs(id) == [fmt |-> "utf8", call |-> ActiveCall(id, <<>>, "", "")]

Ok(v) == [ok |-> TRUE, some |-> TRUE, val |-> v, err |-> ""]
OkNone == [ok |-> TRUE, some |-> FALSE, val |-> NoCall, err |-> ""]
Err(e) == [ok |-> FALSE, some |-> FALSE, val |-> NoCall, err |-> e]

\* impl FromRedisValue for ActiveCall: only a BulkString that deserializes
\* is accepted; every other reply (Okay of SET, Int of DEL) is "Format error".
from_redis_value(v) ==
    IF v.t = "IoError" THEN Err("IoError")
    ELSE IF v.t = "BulkString"
    THEN IF v.bytes.fmt = "msgpack" THEN Ok(v.bytes.call)
         ELSE Err("TypeError")
    ELSE Err("TypeError")

\* Option<ActiveCall>: Nil is None, anything else goes through from_redis_value.
OptionActiveCall(v) ==
    IF v.t = "Nil" THEN OkNone ELSE from_redis_value(v)

\* Option<String> as read by get_in_channel: Nil is None; a BulkString must
\* be valid UTF-8 (String's FromRedisValue uses from_utf8), Okay is "OK".
OptionString(v) ==
    IF v.t = "IoError" THEN Err("IoError")
    ELSE IF v.t = "Nil" THEN OkNone
    ELSE IF v.t = "BulkString" /\ v.bytes.fmt = "utf8" THEN Ok(v.bytes.call)
    ELSE Err("TypeError")

\* (): FromRedisValue for unit accepts every reply.
UnitReply(v) == IF v.t = "IoError" THEN Err("IoError") ELSE Ok(NoCall)

\* The store's commands: the new store and the reply.
GET(key) ==
    IF refused THEN IoError
    ELSE IF redis[key] = Nil THEN Nil ELSE BulkString(redis[key])
SET(key, bytes) == IF refused THEN redis ELSE [redis EXCEPT ![key] = bytes]
SETReply == IF refused THEN IoError ELSE Okay
\* A DEL that leaves the key in the store.
DEL_Keeps_Key(key) == redis

DEL(key) == IF refused THEN redis ELSE [redis EXCEPT ![key] = Nil]
DELReply(key) ==
    IF refused THEN IoError ELSE IntReply(IF redis[key] = Nil THEN 0 ELSE 1)

\* Vec::push
Push(members, u) == Append(members, u)
\* Vec::retain(|x| x != user_id)
RECURSIVE Retain(_, _)
Retain(members, u) ==
    IF members = <<>> THEN <<>>
    ELSE IF Head(members) = u THEN Retain(Tail(members), u)
         ELSE <<Head(members)>> \o Retain(Tail(members), u)

Contains(members, u) == \E i \in 1..Len(members) : members[i] = u

\* No operation of the task has returned since it last began one.
Pending == [ok |-> FALSE, some |-> FALSE, val |-> NoCall, err |-> "pending"]

Operation(name, space, channel, user, id) ==
    [name |-> name, space |-> space, channel |-> channel, user |-> user, id |-> id]

NoOp == Operation("none", "", "", "", 0)

ActiveIn(space, channel) ==
    {k \in active : k.space_id = space /\ k.channel_id = channel}

InCreate(t) == op[t].name = "create" /\ pc[t] # "idle"

InitCalls ==
    /\ redis = [k \in Keys |-> Nil]
    /\ history = [i \in 1..(MaxCalls + 1) |-> <<>>]
    /\ nextUlid = 0
    /\ opsBegun = [t \in Tasks |-> 0]
    /\ pc = [t \in Tasks |-> "idle"]
    /\ op = [t \in Tasks |-> NoOp]
    /\ self = [t \in Tasks |-> NoCall]
    /\ result = [t \in Tasks |-> Pending]
    /\ histTasks = {}
    /\ active = {}
    /\ overlap = [t \in Tasks |-> {}]
    /\ sawActive = [t \in Tasks |-> {}]
    /\ snapshots = {}

\* Task t, idle, begins an operation and suspends at await point `at`; an
\* operation that has returned by then is back at "idle" with what it returned.
Begin(t, operation, at, ret) ==
    /\ pc[t] = "idle"
    /\ opsBegun["t1"] + opsBegun["t2"] < MaxOps
    /\ opsBegun' = [opsBegun EXCEPT ![t] = @ + 1]
    /\ op' = [op EXCEPT ![t] = operation]
    /\ pc' = [pc EXCEPT ![t] = at]
    /\ result' = [result EXCEPT ![t] = ret]

\* The operation of task t returns ret.
Return(t, ret) ==
    /\ pc' = [pc EXCEPT ![t] = "idle"]
    /\ result' = [result EXCEPT ![t] = ret]

\* Result::unwrap on an Err: the task that runs the operation panics and
\* never returns to its caller.
unwrap(t) ==
    /\ pc' = [pc EXCEPT ![t] = "panicked"]
    /\ result' = result

\* The operation of task t goes on to await point `at`.
Goto(t, at) ==
    /\ pc' = [pc EXCEPT ![t] = at]
    /\ result' = result

(***************************************************************************)
(* ActiveCall::create(space, channel, initiator), one action per await.    *)
(***************************************************************************)
\* The call of create; it first awaits get_in_channel(space, channel).
create(t, space, channel, initiator) ==
    /\ nextUlid < MaxCalls
    /\ Begin(t, Operation("create", space, channel, initiator, 0), "get_in_channel", Pending)
    /\ LET others == {o \in Tasks \ {t} : InCreate(o) /\ op[o].space = space
                                            /\ op[o].channel = channel}
       IN overlap' = [o \in Tasks |->
                        IF o = t THEN others
                        ELSE IF o \in others THEN overlap[o] \cup {t}
                        ELSE overlap[o]]
    /\ sawActive' = [sawActive EXCEPT ![t] = ActiveIn(space, channel)]
    /\ UNCHANGED <<notCalls, snapshots, redis, history, nextUlid, self, histTasks, active>>

\* ActiveCall::update (lines 260-266): SET call:{id} <- self, with the reply
\* read as an ActiveCall (set::<String, ActiveCall, ActiveCall>), then `?`.
update(call) ==
    [store |-> SET(CanonicalKey(call.id), write_redis_args(call)),
     ret |-> LET reply == from_redis_value(SETReply)
             IN IF reply.ok THEN OkNone ELSE Err(reply.err)]

\* ActiveCall::get_in_channel called on its own (the handlers' lookup).
get_in_channel(t, space, channel) ==
    /\ Begin(t, Operation("get_in_channel", space, channel, "", 0), "get_in_channel", Pending)
    /\ UNCHANGED <<notCalls, snapshots, redis, history, nextUlid, self, histTasks, active, overlap,
                   sawActive>>

\* get_in_channel, line 246: GET call:{space}:{channel} as Option<String>.
\* An error returns from get_in_channel and, through `?`, from create; None
\* returns Ok(None), on which create goes on to its write.
get_in_channel_witness(t) ==
    /\ pc[t] = "get_in_channel"
    /\ LET id == OptionString(GET(WitnessKey(op[t].space, op[t].channel)))
       IN IF ~id.ok
          THEN Return(t, Err(id.err)) /\ op' = op
          ELSE IF id.some
          THEN Goto(t, "get") /\ op' = [op EXCEPT ![t].id = id.val.id]
          ELSE IF op[t].name = "create"
          THEN Goto(t, "create_set") /\ op' = op
          ELSE IF op[t].name \in {"leave_call", "join_call"}
          THEN Return(t, Err("NotFound")) /\ op' = op
          ELSE Return(t, OkNone) /\ op' = op
    /\ UNCHANGED <<notCalls, snapshots, redis, history, nextUlid, opsBegun, self, histTasks, active,
                   overlap, sawActive>>

\* ActiveCall::get(id) called on its own.
get(t, id) ==
    /\ Begin(t, Operation("get", "", "", "", id), "get", Pending)
    /\ UNCHANGED <<notCalls, snapshots, redis, history, nextUlid, self, histTasks, active, overlap,
                   sawActive>>

\* get, line 256: GET call:{id} as Option<ActiveCall>.  Inside create
\* (lines 192-195) a call that is found makes create return AlreadyExists.
\* Inside leave_call (methods/webrtc.rs, lines 166-175) no call is NotFound,
\* a call that has the caller among its members is NotFound too (line 168),
\* and any other call goes through leave_user (lines 296-305).  Inside
\* join_call (methods/webrtc.rs, lines 57-64) no call is NotFound and a call,
\* whoever its members are, goes through join_user (lines 268-273: push,
\* update, `?`) and, when that returned Ok, on to get_token.
get_record(t) ==
    /\ pc[t] = "get"
    /\ LET call == OptionActiveCall(GET(CanonicalKey(op[t].id)))
       IN IF ~call.ok
          THEN Return(t, Err(call.err)) /\ UNCHANGED <<self, redis>>
          ELSE IF op[t].name = "create"
          THEN /\ IF call.some THEN Return(t, Err("AlreadyExists"))
                               ELSE Goto(t, "create_set")
               /\ UNCHANGED <<self, redis>>
          ELSE IF op[t].name = "leave_call"
          THEN IF ~call.some \/ Contains(call.val.members, op[t].user)
               THEN Return(t, Err("NotFound")) /\ UNCHANGED <<self, redis>>
               ELSE LET left == [call.val EXCEPT !.members = Retain(@, op[t].user)]
                    IN /\ self' = [self EXCEPT ![t] = left]
                       /\ redis' = update(left).store
                       /\ IF update(left).ret.ok /\ left.members = <<>>
                          THEN Goto(t, "end")
                          ELSE Return(t, update(left).ret)
          ELSE IF op[t].name = "join_call"
          THEN IF ~call.some
               THEN Return(t, Err("NotFound")) /\ UNCHANGED <<self, redis>>
               ELSE LET joined == [call.val EXCEPT !.members = Push(@, op[t].user)]
                    IN /\ self' = [self EXCEPT ![t] = joined]
                       /\ redis' = update(joined).store
                       /\ IF update(joined).ret.ok
                          THEN Goto(t, "get_token")
                          ELSE Return(t, update(joined).ret)
          ELSE /\ Return(t, call)
               /\ self' = [self EXCEPT ![t] = IF call.some THEN call.val ELSE @]
               /\ redis' = redis
    /\ UNCHANGED <<notCalls, snapshots, history, nextUlid, opsBegun, op, histTasks, active,
                   overlap, sawActive>>

\* What create writes under the witness key (lines 203-207): the record.
create_witness_value(call) ==
    write_redis_args(call)

\* create, lines 196-209: mint the ULID, build the call with the initiator as
\* the sole member, SET call:{space}:{channel}; the reply is read as () and
\* the Result is unwrapped.
create_set(t) ==
    /\ pc[t] = "create_set"
    /\ LET call == ActiveCall(nextUlid + 1, <<op[t].user>>, op[t].space, op[t].channel)
       IN /\ nextUlid' = nextUlid + 1
          /\ redis' = SET(WitnessKey(op[t].space, op[t].channel),
                          create_witness_value(call))
          /\ self' = [self EXCEPT ![t] = call]
          /\ IF UnitReply(SETReply).ok THEN Goto(t, "create_history")
                                       ELSE unwrap(t)
    /\ UNCHANGED <<notCalls, snapshots, history, opsBegun, op, histTasks, active, overlap, sawActive>>

\* create, lines 210-241: insert the history record, spawn the snapshot task,
\* return Ok(call).
create_history(t) ==
    /\ pc[t] = "create_history"
    /\ history' = [history EXCEPT ![self[t].id] = self[t].members]
    /\ histTasks' = histTasks \cup {[space |-> op[t].space, channel |-> op[t].channel,
                                     id |-> self[t].id]}
    /\ Return(t, Ok(self[t]))
    /\ active' = active \cup {[id |-> self[t].id, space_id |-> op[t].space,
                               channel_id |-> op[t].channel]}
    /\ UNCHANGED <<notCalls, snapshots, redis, nextUlid, opsBegun, op, self, overlap, sawActive>>

\* The task spawned by create (lines 220-240), one wake-up: GET the witness
\* as Option<ActiveCall>; an error or None ends the task, a record rewrites
\* the history snapshot of the call it names.  A wake-up that rewrites what
\* the task has written before changes nothing and is left out.
history_task(h) ==
    /\ h \in histTasks
    /\ LET active_call == OptionActiveCall(GET(WitnessKey(h.space, h.channel)))
       IN IF ~active_call.ok \/ ~active_call.some
          THEN /\ histTasks' = histTasks \ {h}
               /\ UNCHANGED <<history, snapshots>>
          ELSE /\ history' = [history EXCEPT ![active_call.val.id] =
                                                    active_call.val.members]
               /\ snapshots' = snapshots \cup
                                 IF active_call.val.id = h.id THEN {}
                                 ELSE {<<h.id, active_call.val.id>>}
               /\ histTasks' = histTasks
               /\ history' # history \/ snapshots' # snapshots
    /\ UNCHANGED <<notCalls, redis, nextUlid, opsBegun, pc, op, self, result, active, overlap,
                   sawActive>>

(***************************************************************************)
(* join_user, leave_user, end, update.                                     *)
(***************************************************************************)
\* ActiveCall::join_user (lines 268-273): push, update, `?`.
join_user(t, id) ==
    /\ self[t] # NoCall
    /\ Len(self[t].members) < MaxMembers
    /\ LET call == [self[t] EXCEPT !.members = Push(@, id)]
       IN /\ Begin(t, Operation("join_user", call.space_id, call.channel_id, id,
                                call.id), "idle", update(call).ret)
          /\ self' = [self EXCEPT ![t] = call]
          /\ redis' = update(call).store
    /\ UNCHANGED <<notCalls, snapshots, history, nextUlid, histTasks, active, overlap, sawActive>>

\* ActiveCall::leave_user (lines 296-305): retain, update, `?`; when update
\* returned Ok and no member is left, end is awaited next.
leave_user(t, user_id) ==
    /\ self[t] # NoCall
    /\ LET call == [self[t] EXCEPT !.members = Retain(@, user_id)]
           ends == update(call).ret.ok /\ call.members = <<>>
       IN /\ Begin(t, Operation("leave_user", call.space_id, call.channel_id,
                                user_id, call.id), IF ends THEN "end" ELSE "idle",
                   IF ends THEN Pending ELSE update(call).ret)
          /\ self' = [self EXCEPT ![t] = call]
          /\ redis' = update(call).store
    /\ UNCHANGED <<notCalls, snapshots, history, nextUlid, histTasks, active, overlap, sawActive>>

\* leave_call (methods/webrtc.rs, lines 158-179) called by an authenticated
\* caller `id` with a space id; it first awaits get_in_channel(space, id of
\* the channel).
leave_call(t, space, channel, id) ==
    /\ Begin(t, Operation("leave_call", space, channel, id, 0), "get_in_channel", Pending)
    /\ UNCHANGED <<notCalls, snapshots, redis, history, nextUlid, self, histTasks, active, overlap,
                   sawActive>>

\* join_call (methods/webrtc.rs, lines 33-67) called by an authenticated
\* caller `id` who is a member of the space and may join calls; it first
\* awaits get_in_channel(space, id of the channel).
join_call(t, space, channel, id) ==
    /\ Begin(t, Operation("join_call", space, channel, id, 0), "get_in_channel", Pending)
    /\ UNCHANGED <<notCalls, snapshots, redis, history, nextUlid, self, histTasks, active, overlap,
                   sawActive>>

\* ActiveCall::end called on its own (the endCall handler).
end(t) ==
    /\ self[t] # NoCall
    /\ Begin(t, Operation("end", self[t].space_id, self[t].channel_id, "",
                          self[t].id), "end", Pending)
    /\ UNCHANGED <<notCalls, snapshots, redis, history, nextUlid, self, histTasks, active, overlap,
                   sawActive>>

\* end, lines 309-315: DEL call:{space}:{channel} with the reply read as an
\* ActiveCall (del::<String, ActiveCall>), then `?`.
end_del(t) ==
    /\ pc[t] = "end"
    /\ LET key == WitnessKey(self[t].space_id, self[t].channel_id)
           deleted == from_redis_value(DELReply(key))
       IN /\ redis' = DEL(key)
          /\ Return(t, IF deleted.ok THEN OkNone ELSE Err(deleted.err))
    /\ active' = active \ ActiveIn(self[t].space_id, self[t].channel_id)
    /\ UNCHANGED <<notCalls, snapshots, history, nextUlid, opsBegun, op, self, histTasks, overlap,
                   sawActive>>

NextCalls ==
    \/ \E t \in Tasks, s \in Spaces, c \in Channels, u \in Users : create(t, s, c, u)
    \/ \E t \in Tasks, s \in Spaces, c \in Channels : get_in_channel(t, s, c)
    \/ \E t \in Tasks : get_in_channel_witness(t)
    \/ \E t \in Tasks, i \in 1..MaxCalls : get(t, i)
    \/ \E t \in Tasks : get_record(t)
    \/ \E t \in Tasks : create_set(t)
    \/ \E t \in Tasks : create_history(t)
    \/ \E h \in histTasks : history_task(h)
    \/ \E t \in Tasks, u \in Users : join_user(t, u)
    \/ \E t \in Tasks, u \in Users : leave_user(t, u)
    \/ \E t \in Tasks, s \in Spaces, c \in Channels, u \in Users : leave_call(t, s, c, u)
    \/ \E t \in Tasks, s \in Spaces, c \in Channels, u \in Users : join_call(t, s, c, u)
    \/ \E t \in Tasks : end(t)
    \/ \E t \in Tasks : end_del(t)

\* The connection to the store goes down: get_connection() still hands out
\* the multiplexed connection, and every command on it ends in an error.
store_refuses ==
    /\ ~refused
    /\ refused' = TRUE
    /\ UNCHANGED notStore

\* The connection is back.
store_accepts ==
    /\ refused
    /\ refused' = FALSE
    /\ UNCHANGED notStore

(***************************************************************************)
(* The pending-request rendezvous: Request<T> (request.rs), REQUESTS,      *)
(* ActiveCall::get_token and the "nodes" bus consumer's UserCreate arm.    *)
(***************************************************************************)
\* get_token calls begun in one behaviour (each makes one Notify).
MaxRequests == 3
\* events the media nodes publish on the bus in one behaviour.
MaxNodeEvents == 2

CallIds == 1..1
Sdps == {"ANSWER", "ANSWER2"}
Offers == {"OFFER"}

\* Request<String> { data: Option<T>, notify: Arc<Notify> }; Notify 0 is none.
Request(data, n) == [data |-> data, notify |-> n]
None == "None"
NoRequest == Request(None, 0)

\* format!("{}:{}", call_id, session_id)
RequestKey(call_id, session_id) == <<call_id, session_id>>
RequestKeys == {RequestKey(c, u) : c \in CallIds, u \in Users}

\* struct Node { id, region, last_ping } as Node::new makes it (lines 33-41).
Node(time) == [present |-> TRUE, last_ping |-> time]
NoNode == [present |-> FALSE, last_ping |-> 0]

\* NodeEvent { id, event }
UserConnect(call_id, session_id, offer) ==
    [event |-> "UserConnect", call_id |-> call_id, session_id |-> session_id,
     sdp |-> [kind |-> "Offer", sdp |-> offer], id |-> "server"]
UserCreate(call_id, session_id, answer) ==
    [event |-> "UserCreate", call_id |-> call_id, session_id |-> session_id,
     sdp |-> [kind |-> "Answer", sdp |-> answer], id |-> "node"]

\* SessionDescription::to_string(): the session description's text.
SdpToString(sdp) == sdp.sdp

\* derive(Clone) for Request: data is copied, the Arc<Notify> is shared.
Clone(req) == Request(req.data, req.notify)

\* Request::set (lines 19-22) on the value it is called on.
set(req, data) == Request(data, req.notify)

\* Request::wait (lines 25-28) once notified: self.data.clone().unwrap().
wait(req) ==
    IF req.data = None THEN [ok |-> FALSE, sdp |-> "", err |-> "panic"]
    ELSE [ok |-> TRUE, sdp |-> req.data, err |-> ""]

NotReturned == [ok |-> FALSE, sdp |-> "", err |-> "pending"]
NoArgs == [call_id |-> 0, user_id |-> "", sdp |-> ""]

InitToken ==
    /\ REQUESTS = [k \in RequestKeys |-> NoRequest]
    /\ notify = [n \in 1..(MaxRequests + 1) |-> FALSE]
    /\ nextNotify = 0
    /\ bus = <<>>
    /\ published = {}
    /\ tpc = [t \in Tasks |-> "idle"]
    /\ targ = [t \in Tasks |-> NoArgs]
    /\ request = [t \in Tasks |-> NoRequest]
    /\ tret = [t \in Tasks |-> NotReturned]

\* get_token, lines 276-277: Request::new() and REQUESTS.insert of its clone.
get_token(t, call_id, user_id, sdp) ==
    /\ tpc[t] = "idle"
    /\ nextNotify < MaxRequests
    /\ nextNotify' = nextNotify + 1
    /\ LET req == Request(None, nextNotify + 1)
       IN /\ request' = [request EXCEPT ![t] = req]
          /\ REQUESTS' = [REQUESTS EXCEPT ![RequestKey(call_id, user_id)] = Clone(req)]
    /\ targ' = [targ EXCEPT ![t] = [call_id |-> call_id, user_id |-> user_id,
                                    sdp |-> sdp]]
    /\ tret' = [tret EXCEPT ![t] = NotReturned]
    /\ tpc' = [tpc EXCEPT ![t] = "publish"]
    /\ UNCHANGED <<notToken, notify, bus, published>>

\* get_token, lines 278-291: publish UserConnect on "nodes".
get_token_publish(t) ==
    /\ tpc[t] = "publish"
    /\ LET e == UserConnect(targ[t].call_id, targ[t].user_id, targ[t].sdp)
       IN /\ bus' = Append(bus, e)
          /\ published' = published \cup {e}
    /\ tpc' = [tpc EXCEPT ![t] = "wait"]
    /\ UNCHANGED <<notToken, REQUESTS, notify, nextNotify, targ, request, tret>>

\* get_token, lines 292-293: request.wait().await takes the Notify's permit
\* and returns the data of the local request.
get_token_wait(t) ==
    /\ tpc[t] = "wait"
    /\ notify[request[t].notify]
    /\ notify' = [notify EXCEPT ![request[t].notify] = FALSE]
    /\ tret' = [tret EXCEPT ![t] = wait(request[t])]
    /\ tpc' = [tpc EXCEPT ![t] = "idle"]
    /\ UNCHANGED <<notToken, REQUESTS, nextNotify, bus, published, targ, request>>

\* A media node publishes UserCreate on "nodes".
node_publish(call_id, session_id, answer) ==
    /\ Cardinality({i \in 1..Len(bus) : bus[i].id = "node"})
         + Cardinality({e \in published : e.id = "node"}) < MaxNodeEvents
    /\ bus' = Append(bus, UserCreate(call_id, session_id, answer))
    /\ UNCHANGED <<notToken, REQUESTS, notify, nextNotify, published, tpc, targ, request, tret>>

\* The bus consumer (lines 53-111), one message.  Description inserts the
\* node with last_ping = now unless its id is in the directory; Ping sets
\* last_ping = now of a node that is in it; Disconnect removes the node;
\* UserCreate sets the table's entry for "{call_id}:{session_id}" if there is
\* one (lines 101-106, where set stores the data and signals the Notify); the
\* server's own UserConnect and Query fall to the arms that do nothing.
\* A Description arm that inserts the node whether or not it is known.
Description_Overwrites(nodes, id, time) == [nodes EXCEPT ![id] = Node(time)]

\* The Description arm (lines 56-68): a node that is in the directory is
\* left as it is; one that is not is inserted as Node::new makes it.
Description(nodes, id, time) ==
    IF nodes[id].present THEN nodes ELSE [nodes EXCEPT ![id] = Node(time)]

\* The Ping arm (lines 69-77): last_ping of a node that is in the directory.
Ping(nodes, id, time) ==
    IF nodes[id].present THEN [nodes EXCEPT ![id].last_ping = time] ELSE nodes

\* The Disconnect arm (lines 78-84): AVAILABLE_NODES.remove(&id).
Disconnect(nodes, id) == [nodes EXCEPT ![id] = NoNode]

\* What `seen` records of a directory event.
Seen(e) == [event |-> e.event, id |-> e.id, known |-> AVAILABLE_NODES[e.id].present]
NothingSeen == [event |-> "", id |-> "", known |-> FALSE]

nodes_consume ==
    /\ bus # <<>>
    /\ bus' = Tail(bus)
    /\ LET e == Head(bus)
       IN CASE e.event = "UserCreate" ->
                 LET key == RequestKey(e.call_id, e.session_id)
                 IN /\ IF REQUESTS[key] # NoRequest
                       THEN /\ REQUESTS' = [REQUESTS EXCEPT ![key] =
                                                set(@, SdpToString(e.sdp))]
                            /\ notify' = [notify EXCEPT ![REQUESTS[key].notify] = TRUE]
                       ELSE UNCHANGED <<REQUESTS, notify>>
                    /\ published' = published \cup {e}
                    /\ UNCHANGED <<AVAILABLE_NODES, seen>>
            [] e.event = "Description" ->
                 /\ AVAILABLE_NODES' = Description(AVAILABLE_NODES, e.id, now)
                 /\ seen' = Seen(e)
                 /\ UNCHANGED <<REQUESTS, notify, published>>
            [] e.event = "Ping" ->
                 /\ AVAILABLE_NODES' = Ping(AVAILABLE_NODES, e.id, now)
                 /\ seen' = Seen(e)
                 /\ UNCHANGED <<REQUESTS, notify, published>>
            [] e.event = "Disconnect" ->
                 /\ AVAILABLE_NODES' = Disconnect(AVAILABLE_NODES, e.id)
                 /\ seen' = Seen(e)
                 /\ UNCHANGED <<REQUESTS, notify, published>>
            [] OTHER ->
                 UNCHANGED <<REQUESTS, notify, published, AVAILABLE_NODES, seen>>
    /\ UNCHANGED <<notNodes, now, sleepUntil, swept, nextNotify, tpc, targ, request, tret>>

NextToken ==
    \/ \E t \in Tasks, c \in CallIds, u \in Users, o \in Offers : get_token(t, c, u, o)
    \/ \E t \in Tasks : get_token_publish(t)
    \/ \E t \in Tasks : get_token_wait(t)
    \/ \E c \in CallIds, u \in Users, a \in Sdps : node_publish(c, u, a)
    \/ nodes_consume

(***************************************************************************)
(* The media-node directory (services/webrtc.rs, lines 16-128): the arms   *)
(* of the bus consumer that keep it, and the sweeper.                      *)
(***************************************************************************)
NodeIds == {"N1", "N2"}
\* `node.last_ping + 10000 < time`, in milliseconds.
NODE_TIMEOUT == 10000
\* sleep(Duration::from_millis(1000)) between two sweeps.
SWEEP_PERIOD == 1000
\* the clock moves in steps of half a sweep period.
Tick == SWEEP_PERIOD \div 2
\* the clock stops here.
MaxTime == 12000
\* directory events waiting on the bus at one time.
MaxBus == 1

\* NodeEvent { id, event } for Description, Ping and Disconnect.
DirectoryEvent(id, event) ==
    [event |-> event, call_id |-> 0, session_id |-> "",
     sdp |-> [kind |-> "", sdp |-> ""], id |-> id]
DirectoryEvents == {"Description", "Ping", "Disconnect"}

\* A node the sweeper keeps until the deadline itself has passed too.
Expired_At_Deadline(node, time) == node.last_ping + NODE_TIMEOUT <= time

\* The sweeper's test (line 117).
Expired(node, time) == node.last_ping + NODE_TIMEOUT < time

InitNodes ==
    /\ AVAILABLE_NODES = [n \in NodeIds |-> NoNode]
    /\ now = 0
    /\ sleepUntil = 0
    /\ swept = {}
    /\ seen = NothingSeen

\* A media node publishes Description, Ping or Disconnect on "nodes".
node_announce(id, event) ==
    /\ Len(bus) < MaxBus
    /\ bus' = Append(bus, DirectoryEvent(id, event))
    /\ UNCHANGED <<notToken, REQUESTS, notify, nextNotify, published, tpc, targ, request,
                   tret>>

\* The sweeper (lines 113-128), one turn of its loop: read the clock, retain
\* the nodes that have not expired, sleep for SWEEP_PERIOD.
sweep ==
    /\ now = sleepUntil
    /\ AVAILABLE_NODES' = [n \in NodeIds |->
                              IF AVAILABLE_NODES[n].present
                                 /\ Expired(AVAILABLE_NODES[n], now)
                              THEN NoNode ELSE AVAILABLE_NODES[n]]
    /\ swept' = swept \cup {n \in NodeIds : AVAILABLE_NODES[n].present
                                           /\ Expired(AVAILABLE_NODES[n], now)}
    /\ sleepUntil' = now + SWEEP_PERIOD
    /\ now' = now
    /\ UNCHANGED <<notNodes, tokenVars, seen>>

\* Time passes, up to the end of the sweeper's sleep.
advance ==
    /\ now < MaxTime
    /\ now + Tick <= sleepUntil
    /\ now' = now + Tick
    /\ UNCHANGED <<notNodes, tokenVars, AVAILABLE_NODES, sleepUntil, swept, seen>>

NextNodes ==
    \/ \E n \in NodeIds, k \in DirectoryEvents : node_announce(n, k)
    \/ nodes_consume
    \/ sweep
    \/ advance

(***************************************************************************)
(* The RPC connection engine (crates/rapid/src/socket.rs): start_client,   *)
(* handle_packet, the write pump, the heartbeat supervisor, the fanout.    *)
(***************************************************************************)
Conns == {"c1", "c2"}
\* frames the clients send in one behaviour.
MaxFrames == 2
\* emit_to_id calls in one behaviour.
MaxEmits == 1
\* HEARTBEAT_TIMEOUT (utilities), in units of the model's clock.
HEARTBEAT_TIMEOUT == 2
\* ids minted per batch: `for _ in 0..20` at start_client and in the GetId arm.
REQUEST_ID_BATCH == 20

Tokens == {"T1", "T2", "bad"}
MessageIds == {"r1", "r2"}
\* the methods registered at startup, and a name that is not registered.
methods == {"getFriends", "startCall"}
MethodNames == methods \cup {"doesNotExist"}
\* what a registered handler's future resolves to (a value or an error value).
HandlerValues == {"value", "error"}

\* The injected authenticator: a user handle for a good token, else an error.
authenticate(token) ==
    IF token = "T1" THEN [ok |-> TRUE, user |-> "U1"]
    ELSE IF token = "T2" THEN [ok |-> TRUE, user |-> "U2"]
    ELSE [ok |-> FALSE, user |-> None]

\* the users the authenticator knows.
Identities == {authenticate(tok).user : tok \in {t \in Tokens : authenticate(t).ok}}

\* A batch that is one id short.
MintBatch_One_Short(n) == [i \in 1..(REQUEST_ID_BATCH - 1) |-> n + i]

\* generate_id() called REQUEST_ID_BATCH times.
MintBatch(n) == [i \in 1..REQUEST_ID_BATCH |-> n + i]

\* An outbound frame; id is the id field of the frame ("": the frame has
\* none).  req is history: the number and the id of the request frame it
\* answers (NoReq: none).
Frame(type, id, payload, req) ==
    [type |-> type, id |-> id, payload |-> payload, req |-> req]
NoReq == [n |-> 0, id |-> ""]
Req(r) == [n |-> r.n, id |-> r.id]

\* RpcApiEvent::Hello / Identify / Heartbeat / GetId (lines 225-239).
HelloEvent(request_ids) == Frame("HELLO", "", request_ids, NoReq)
IdentifyEvent(req) == Frame("IDENTIFY", "", <<>>, req)
HeartbeatEvent(req) == Frame("HEARTBEAT", "", <<>>, req)
GetIdEvent(request_ids, req) == Frame("GET_ID", "", request_ids, req)
\* RpcApiResponse { id: Some(id), response: Some(result) } (lines 325-329).
RpcApiResponse(id, value, req) == Frame("Response", id, <<value>>, req)
\* RpcApiError { error } (lines 337-340): the struct has no id field.
RpcApiError(id, error, req) == Frame("Error", "", <<error>>, req)
\* an event pushed by emit_one.
PushedEvent == Frame("Event", "", <<>>, NoReq)

\* A frame sent by the client; n is its number on the connection.
Request_(kind, token, id, method, n) ==
    [kind |-> kind, token |-> token, id |-> id, method |-> method, n |-> n]
NoRequestFrame == Request_("", "", "", "", 0)
ClientFrames ==
    {Request_("Identify", tok, "", "", 0) : tok \in Tokens}
    \cup {Request_("Heartbeat", "", "", "", 0), Request_("GetId", "", "", "", 0),
          Request_("Malformed", "", "", "", 0), Request_("Close", "", "", "", 0),
          Request_("Text", "", "", "", 0)}
    \cup {Request_("Message", "", id, m, 0) : id \in MessageIds, m \in MethodNames}

Binary(f) == f.kind \in {"Identify", "Heartbeat", "GetId", "Message", "Malformed"}

\* RpcClient { id, socket, user, request_ids, heartbeat_tx }; the channel
\* ends it holds are the variables socket[c] and heartbeat[c].
RpcClient(user, request_ids) ==
    [present |-> TRUE, user |-> user, request_ids |-> request_ids]
NoClient == [present |-> FALSE, user |-> None, request_ids |-> <<>>]

Channel(queue, closed) == [queue |-> queue, closed |-> closed]

\* A channel that hands the newest frame out first.
send_Newest_First(ch, frame) ==
    IF ch.closed THEN ch ELSE Channel(<<frame>> \o ch.queue, FALSE)

\* Sender::send on the unbounded outbound channel: an error when closed.
send(ch, frame) ==
    IF ch.closed THEN ch ELSE Channel(Append(ch.queue, frame), FALSE)
\* Sender::close
close(ch) == Channel(ch.queue, TRUE)

\* A removal that leaves the session in the registry.
remove_Keeps_Session(registry, c) == registry

\* clients.remove(&id)
remove(registry, c) == [registry EXCEPT ![c] = NoClient]

InitSocket ==
    /\ clients = [c \in Conns |-> NoClient]
    /\ socket = [c \in Conns |-> Channel(<<>>, FALSE)]
    /\ wire = [c \in Conns |-> <<>>]
    /\ pump = [c \in Conns |-> "none"]
    /\ inbound = [c \in Conns |-> <<>>]
    /\ stream = [c \in Conns |-> "none"]
    /\ reader = [c \in Conns |-> "none"]
    /\ cur = [c \in Conns |-> NoRequestFrame]
    /\ heartbeat = [c \in Conns |-> [ticks |-> 0, tx |-> FALSE, rx |-> FALSE]]
    /\ supervisor = [c \in Conns |-> "none"]
    /\ timer = [c \in Conns |-> 0]
    /\ nextId = 0
    /\ emits = [c \in Conns |-> 0]
    /\ emitted = <<>>
    /\ sent = [c \in Conns |-> 0]
    /\ idle = [c \in Conns |-> 0]
    /\ evictedAt = [c \in Conns |-> -1]
    /\ store = {}
    /\ quiet = [c \in Conns |-> 0]

\* start_client up to the spawn of the heartbeat supervisor (lines 241-292):
\* the upgrade is accepted, the write pump is spawned, the connection-id and
\* the first batch of request-ids are minted, Hello is sent on the outbound
\* channel, the tick channel is made and the heartbeat supervisor is
\* spawned.  The request-ids, a local of start_client that goes into the
\* RpcClient of line 293, are kept in the absent entry of the connection
\* until insert.  Connection-ids are interchangeable, so the connections are
\* accepted in one order.
start_client(c) ==
    /\ reader[c] = "none"
    /\ c = "c2" => reader["c1"] # "none"
    /\ stream' = [stream EXCEPT ![c] = "open"]
    /\ pump' = [pump EXCEPT ![c] = "running"]
    /\ nextId' = nextId + REQUEST_ID_BATCH
    /\ socket' = [socket EXCEPT ![c] = send(@, HelloEvent(MintBatch(nextId)))]
    /\ heartbeat' = [heartbeat EXCEPT ![c] = [ticks |-> 0, tx |-> TRUE, rx |-> TRUE]]
    /\ supervisor' = [supervisor EXCEPT ![c] = "waiting"]
    /\ timer' = [timer EXCEPT ![c] = 0]
    /\ clients' = [clients EXCEPT ![c].request_ids = MintBatch(nextId)]
    /\ reader' = [reader EXCEPT ![c] = "registering"]
    /\ idle' = [idle EXCEPT ![c] = 0]
    /\ quiet' = [quiet EXCEPT ![c] = 0]
    /\ UNCHANGED <<notSocket, wire, inbound, cur, emits, emitted, sent, evictedAt,
                   store>>

\* start_client, lines 293-300: the RpcClient is built and inserted into the
\* registry under the connection-id, and the read loop begins.
insert(c) ==
    /\ reader[c] = "registering"
    /\ clients' = [clients EXCEPT ![c] = RpcClient(None, @.request_ids)]
    /\ reader' = [reader EXCEPT ![c] = "reading"]
    /\ UNCHANGED <<notSocket, socket, wire, pump, inbound, stream, cur, heartbeat,
                   supervisor, timer, nextId, emits, emitted, sent, idle, evictedAt,
                   store, quiet>>

FramesSent == sent["c1"] + sent["c2"]

\* The client sends a frame.  Close stands for the end of the client's
\* stream, by a Close frame or by a dropped connection: nothing follows it.
client_send(c, f) ==
    /\ stream[c] = "open"
    /\ FramesSent < MaxFrames
    /\ sent' = [sent EXCEPT ![c] = @ + 1]
    /\ inbound' = [inbound EXCEPT ![c] = Append(@, [f EXCEPT !.n = sent[c] + 1])]
    /\ stream' = [stream EXCEPT ![c] = IF f.kind = "Close" THEN "closed" ELSE @]
    /\ quiet' = [quiet EXCEPT ![c] =
                    IF f.kind = "Heartbeat" /\ @ < HEARTBEAT_TIMEOUT THEN 0 ELSE @]
    /\ UNCHANGED <<notSocket, clients, socket, wire, pump, reader, cur, heartbeat,
                   supervisor, timer, nextId, emits, emitted, idle, evictedAt,
                   store>>

\* The frames handle_packet answers without suspending: decoding, the
\* registry and the unbounded channels do not make the task wait.  Identify
\* awaits the authenticator and Message awaits the handler.
Suspends(r) == r.kind \in {"Identify", "Message"}

\* What a handler's future does: panics, or else resolves to a value having
\* made writes to the store.
Outcome(value, writes, panics) ==
    [value |-> value, writes |-> writes, panics |-> panics]

\* check_authenticated(clients, &id): the caller's session is registered and
\* has a user.
check_authenticated(registry, id) ==
    registry[id].present /\ registry[id].user # None

\* get_friends (methods/users.rs, lines 70-79): after the check it reads the
\* user and the user's affinities; a failed read is an error value.
get_friends(registry, id) ==
    IF ~check_authenticated(registry, id)
    THEN {Outcome("Unauthorized", {}, FALSE)}
    ELSE {Outcome(value, {}, FALSE) : value \in HandlerValues}

\* A start_call that goes to the store without the check.
start_call_Unchecked(registry, id) ==
    {Outcome("value", {<<"startCall", id>>}, FALSE),
     Outcome("error", {}, FALSE),
     Outcome("", {}, TRUE)}

\* start_call (methods/webrtc.rs, lines 75-102): after the check it reads the
\* space, the member and the channel, any of which may end it with an error
\* value, and calls ActiveCall::create with the caller's id as initiator;
\* create unwraps the result of its SET (services/webrtc.rs, lines 203-209),
\* which panics when the store refuses the command.
start_call(registry, id) ==
    IF ~check_authenticated(registry, id)
    THEN {Outcome("Unauthorized", {}, FALSE)}
    ELSE {Outcome("value", {<<"startCall", id>>}, FALSE),
          Outcome("error", {}, FALSE),
          Outcome("", {}, TRUE)}

\* The method registry (RpcServer::register, lines 172-191): the erased
\* handler of a name awaits the method and encodes its result as a value.
method(name, registry, id) ==
    IF name = "startCall" THEN start_call(registry, id)
                          ELSE get_friends(registry, id)

\* An Identify arm that signs the session out when the token is refused.
Identify_Clears_User(registry, c, token) ==
    [registry EXCEPT ![c].user = authenticate(token).user]

\* The Identify arm's effect on the registry (lines 360-368): the user is
\* assigned inside map, so only when the authenticator returned Ok.
Identify(registry, c, token) ==
    IF authenticate(token).ok
    THEN [registry EXCEPT ![c].user = authenticate(token).user]
    ELSE registry

\* handle_packet (lines 348-399) from the point where it no longer waits,
\* and lines 309-310 of the read loop: clients.get(&id).unwrap() and
\* client.send(response).  An unwrap on a session that is gone, and a send on
\* a closed channel, panic the read loop's task.
Handle(c, r) ==
    LET respond(resp) ==
            /\ socket' = [socket EXCEPT ![c] = send(@, resp)]
            /\ reader' = [reader EXCEPT ![c] = "reading"]
        panic ==
            /\ reader' = [reader EXCEPT ![c] = "panicked"]
            /\ UNCHANGED <<socket, clients, heartbeat, nextId, idle, store>>
        live == clients[c].present /\ ~socket[c].closed
    IN CASE r.kind = "Malformed" ->
              IF live
              THEN /\ respond(RpcApiError(r.id, "InvalidMethod", Req(r)))
                   /\ UNCHANGED <<clients, heartbeat, nextId, idle, store>>
              ELSE panic
         [] r.kind = "Identify" ->
              IF live
              THEN /\ clients' = Identify(clients, c, r.token)
                   /\ respond(IF authenticate(r.token).ok
                              THEN IdentifyEvent(Req(r))
                              ELSE RpcApiError(r.id, "Unauthorized", Req(r)))
                   /\ UNCHANGED <<heartbeat, nextId, idle, store>>
              ELSE panic
         [] r.kind = "Heartbeat" ->
              IF live /\ heartbeat[c].rx
              THEN /\ heartbeat' = [heartbeat EXCEPT ![c].ticks = @ + 1]
                   /\ idle' = [idle EXCEPT ![c] = 0]
                   /\ respond(HeartbeatEvent(Req(r)))
                   /\ UNCHANGED <<clients, nextId, store>>
              ELSE panic
         [] r.kind = "GetId" ->
              IF live
              THEN /\ clients' = [clients EXCEPT ![c].request_ids =
                                           @ \o MintBatch(nextId)]
                   /\ nextId' = nextId + REQUEST_ID_BATCH
                   /\ respond(GetIdEvent(MintBatch(nextId), Req(r)))
                   /\ UNCHANGED <<heartbeat, idle, store>>
              ELSE panic
         [] r.kind = "Message" ->
              IF live
              THEN IF r.method \notin methods
                   THEN /\ respond(RpcApiError(r.id, "InvalidMethod", Req(r)))
                        /\ UNCHANGED <<clients, heartbeat, nextId, idle, store>>
                   ELSE \E o \in method(r.method, clients, c) :
                           IF o.panics
                           THEN panic
                           ELSE /\ respond(RpcApiResponse(r.id, o.value, Req(r)))
                                /\ store' = store \cup o.writes
                                /\ UNCHANGED <<clients, heartbeat, nextId, idle>>
              ELSE panic

\* The read loop takes the next frame (lines 301-322): a binary frame goes to
\* handle_packet; Close is logged; any other frame removes the session and
\* closes its outbound channel, and the loop goes on; the end of the stream
\* (or a read error) ends the loop and start_client returns.
read_next(c) ==
    /\ reader[c] = "reading"
    /\ IF inbound[c] = <<>>
       THEN /\ stream[c] = "closed"
            /\ reader' = [reader EXCEPT ![c] = "ended"]
            /\ UNCHANGED <<inbound, cur, clients, socket, heartbeat, nextId, idle,
                           store>>
       ELSE /\ inbound' = [inbound EXCEPT ![c] = Tail(@)]
            /\ LET data == Head(inbound[c])
               IN IF Binary(data)
                  THEN IF Suspends(data)
                       THEN /\ cur' = [cur EXCEPT ![c] = data]
                            /\ reader' = [reader EXCEPT ![c] = "handle_packet"]
                            /\ UNCHANGED <<clients, socket, heartbeat, nextId, idle,
                                           store>>
                       ELSE /\ Handle(c, data)
                            /\ cur' = cur
                  ELSE IF data.kind = "Close"
                  THEN UNCHANGED <<cur, reader, clients, socket, heartbeat, nextId, idle,
                                   store>>
                  ELSE /\ clients' = remove(clients, c)
                       /\ socket' = [socket EXCEPT ![c] =
                                        IF clients[c].present THEN close(@) ELSE @]
                       /\ heartbeat' = [heartbeat EXCEPT ![c].tx = FALSE]
                       /\ UNCHANGED <<cur, reader, nextId, idle, store>>
    /\ UNCHANGED <<notSocket, wire, pump, stream, supervisor, timer, emits,
                   emitted, sent, evictedAt, quiet>>

\* The read loop resumes handle_packet once the authenticator or the handler
\* it awaited has finished.
handle_packet(c) ==
    /\ reader[c] = "handle_packet"
    /\ Handle(c, cur[c])
    /\ cur' = [cur EXCEPT ![c] = IF reader'[c] = "panicked" THEN @ ELSE NoRequestFrame]
    /\ UNCHANGED <<notSocket, wire, pump, inbound, stream, supervisor, timer,
                   emits, emitted, sent, evictedAt, quiet>>

\* The write pump (lines 255-260): it writes the frames of the outbound
\* channel in the channel's order and ends once the channel is closed and
\* drained.
write_pump(c) ==
    /\ pump[c] = "running"
    /\ IF socket[c].queue # <<>>
       THEN /\ wire' = [wire EXCEPT ![c] = Append(@, Head(socket[c].queue))]
            /\ socket' = [socket EXCEPT ![c].queue = Tail(@)]
            /\ pump' = pump
       ELSE /\ socket[c].closed
            /\ pump' = [pump EXCEPT ![c] = "done"]
            /\ UNCHANGED <<wire, socket>>
    /\ UNCHANGED <<notSocket, clients, inbound, stream, reader, cur, heartbeat,
                   supervisor, timer, nextId, emits, emitted, sent, idle, evictedAt,
                   store, quiet>>

\* The write pump, line 257, when the client's side of the stream is closed:
\* write.send(msg) returns an error and expect panics the pump's task.  The
\* receiver r is dropped with the task, which closes the outbound channel;
\* what the channel still held is never written.
write_pump_fails(c) ==
    /\ pump[c] = "running"
    /\ socket[c].queue # <<>>
    /\ stream[c] = "closed"
    /\ pump' = [pump EXCEPT ![c] = "panicked"]
    /\ socket' = [socket EXCEPT ![c] = close(@)]
    /\ UNCHANGED <<notSocket, clients, wire, inbound, stream, reader, cur, heartbeat,
                   supervisor, timer, nextId, emits, emitted, sent, idle, evictedAt,
                   store, quiet>>

\* The heartbeat supervisor (lines 281-288), one turn of its loop:
\* timeout(HEARTBEAT_TIMEOUT, rx.recv()) is Ok both on a tick and on the
\* error recv returns once the channel has no sender left; either way the
\* loop starts a new timeout.
supervisor_recv(c) ==
    /\ supervisor[c] = "waiting"
    /\ heartbeat[c].ticks > 0 \/ ~heartbeat[c].tx
    /\ heartbeat' = [heartbeat EXCEPT ![c].ticks = IF @ > 0 THEN @ - 1 ELSE 0]
    /\ timer' = [timer EXCEPT ![c] = 0]
    /\ UNCHANGED <<notSocket, clients, socket, wire, pump, inbound, stream, reader,
                   cur, supervisor, nextId, emits, emitted, sent, idle, evictedAt,
                   store, quiet>>

\* The heartbeat supervisor, lines 289-291: the timeout has elapsed; the
\* session is removed from the registry and its outbound channel closed.
supervisor_timeout(c) ==
    /\ supervisor[c] = "waiting"
    /\ timer[c] = HEARTBEAT_TIMEOUT
    /\ supervisor' = [supervisor EXCEPT ![c] = "done"]
    /\ clients' = remove(clients, c)
    /\ socket' = [socket EXCEPT ![c] = IF clients[c].present THEN close(@) ELSE @]
    /\ heartbeat' = [heartbeat EXCEPT ![c] = [ticks |-> 0, tx |-> FALSE, rx |-> FALSE]]
    /\ evictedAt' = [evictedAt EXCEPT ![c] = IF clients[c].present THEN sent[c] ELSE @]
    /\ UNCHANGED <<notSocket, wire, pump, inbound, stream, reader, cur, timer, nextId,
                   emits, emitted, sent, idle, store, quiet>>

\* A supervisor whose recv is ready, or whose timeout has elapsed, runs
\* before the clock moves on.
Urgent(c) ==
    /\ supervisor[c] = "waiting"
    /\ heartbeat[c].ticks > 0 \/ (heartbeat[c].tx /\ timer[c] = HEARTBEAT_TIMEOUT)

\* A read loop that is waiting for a frame takes one that has arrived before
\* the clock moves on: stream.next() (line 301) is ready.  A loop that is
\* inside handle_packet takes nothing until the await it is in has finished.
\* Nothing is awaited between the spawn of the supervisor and the insert.
Ready(c) ==
    \/ reader[c] = "reading" /\ inbound[c] # <<>>
    \/ reader[c] = "registering"

\* One unit of time passes: the timeouts of the waiting supervisors run on,
\* and so do the time since each connection's last Heartbeat was handled and
\* the time since its client last sent one.
tick ==
    /\ \A c \in Conns : ~Urgent(c) /\ ~Ready(c)
    /\ timer' = [c \in Conns |->
                    IF supervisor[c] = "waiting" /\ heartbeat[c].tx
                    THEN timer[c] + 1 ELSE timer[c]]
    /\ idle' = [c \in Conns |->
                    IF reader[c] # "none" /\ idle[c] <= HEARTBEAT_TIMEOUT
                    THEN idle[c] + 1 ELSE idle[c]]
    /\ idle' # idle
    /\ quiet' = [c \in Conns |->
                    IF reader[c] # "none" /\ quiet[c] < HEARTBEAT_TIMEOUT
                    THEN quiet[c] + 1 ELSE quiet[c]]
    /\ UNCHANGED <<notSocket, clients, socket, wire, pump, inbound, stream, reader,
                   cur, heartbeat, supervisor, nextId, emits, emitted, sent, evictedAt,
                   store>>

\* Every registered session, whoever its user is.
Targets_Every_Session(user_id) == {c \in Conns : clients[c].present}

\* emit_to_id, lines 137-140: the registered sessions whose user is user_id.
Targets(user_id) ==
    {c \in Conns : clients[c].present /\ clients[c].user = user_id}

\* emit_to_id (methods/mod.rs, lines 136-144): every registered session whose
\* user is user_id gets the event through emit_one, which spawns the send.
emit_to_id(user_id) ==
    /\ Len(emitted) < MaxEmits
    /\ emitted' = Append(emitted, user_id)
    /\ emits' = [c \in Conns |-> IF c \in Targets(user_id) THEN emits[c] + 1
                                                           ELSE emits[c]]
    /\ UNCHANGED <<notSocket, clients, socket, wire, pump, inbound, stream, reader,
                   cur, heartbeat, supervisor, timer, nextId, sent, idle, evictedAt,
                   store, quiet>>

\* The task spawned by emit_one (lines 420-422): socket.send, whose error on
\* a closed channel is dropped.
emit_one(c) ==
    /\ emits[c] > 0
    /\ emits' = [emits EXCEPT ![c] = @ - 1]
    /\ socket' = [socket EXCEPT ![c] = send(@, PushedEvent)]
    /\ UNCHANGED <<notSocket, clients, wire, pump, inbound, stream, reader, cur,
                   heartbeat, supervisor, timer, nextId, emitted, sent, idle, evictedAt,
                   store, quiet>>

NextSocket ==
    \/ \E c \in Conns : start_client(c)
    \/ \E c \in Conns : insert(c)
    \/ \E c \in Conns, f \in ClientFrames : client_send(c, f)
    \/ \E c \in Conns : read_next(c)
    \/ \E c \in Conns : handle_packet(c)
    \/ \E c \in Conns : write_pump(c)
    \/ \E c \in Conns : write_pump_fails(c)
    \/ \E c \in Conns : supervisor_recv(c)
    \/ \E c \in Conns : supervisor_timeout(c)
    \/ tick
    \/ \E u \in Identities : emit_to_id(u)
    \/ \E c \in Conns : emit_one(c)

(***************************************************************************)
(* Affinities: User::add_friend and User::remove_friend                    *)
(* (services/database/users.rs) on the "users" collection.                 *)
(***************************************************************************)
\* add_friend / remove_friend calls begun in one behaviour.
MaxFriendOps == 3

\* enum Relationship
Relationship == {"Friend", "Blocked", "Requested", "Pending"}

\* struct Affinity { id, relationship }
Affinity(id, relationship) == [id |-> id, relationship |-> relationship]

\* self.affinities.iter().find(|a| &a.id == friend_id): the first match.
RECURSIVE find(_, _)
find(affinities, friend_id) ==
    IF affinities = <<>> THEN [some |-> FALSE, relationship |-> ""]
    ELSE IF Head(affinities).id = friend_id
         THEN [some |-> TRUE, relationship |-> Head(affinities).relationship]
         ELSE find(Tail(affinities), friend_id)

\* update_one with $push: the entry is appended to the array.
push(affinities, affinity) == Append(affinities, affinity)

\* update_one with $set on affinities.$[affinity].relationship and the array
\* filter affinity.id = id: every entry of that id gets the relationship.
set_relationship(affinities, id, relationship) ==
    [i \in DOMAIN affinities |->
        IF affinities[i].id = id THEN Affinity(id, relationship) ELSE affinities[i]]

\* A $pull that removes nothing.
pull_Nothing(affinities, id) == affinities

\* update_one with $pull { affinities: { id } }: every entry of that id goes.
pull(affinities, id) == SelectSeq(affinities, LAMBDA a : a.id # id)

FriendOp(name, friend_id) == [name |-> name, friend_id |-> friend_id]
NoFriendOp == FriendOp("none", "")
OkUnit == [ok |-> TRUE, err |-> ""]
Error(e) == [ok |-> FALSE, err |-> e]
NotCalled == Error("pending")

\* The collections the operations may start from: a document for every
\* user, with no affinity, or with U2 blocked by U1 (Relationship::Blocked is
\* stored by code that is not part of these two operations).
Stored ==
    {[u \in Users |-> <<>>],
     [u \in Users |-> IF u = "U1" THEN <<Affinity("U2", "Blocked")>> ELSE <<>>]}

InitTasks ==
    /\ fpc = [u \in Users |-> "idle"]
    /\ fop = [u \in Users |-> NoFriendOp]
    /\ fself = [u \in Users |-> <<>>]
    /\ fret = [u \in Users |-> NotCalled]
    /\ flog = <<>>
    /\ foverlap = [u \in Users |-> FALSE]

InitFriends == InitTasks /\ users = [u \in Users |-> <<>>]

\* The task of user u begins an operation on friend_id: the handler has
\* loaded u's document with User::get (methods/users.rs, lines 38 and 64)
\* and calls the operation on it, which first awaits User::get(friend_id).
BeginFriendOp(u, name, friend_id) ==
    /\ fpc[u] = "idle"
    /\ Len(flog) + Cardinality({v \in Users : fpc[v] # "idle"}) < MaxFriendOps
    /\ fpc' = [fpc EXCEPT ![u] = "find"]
    /\ fop' = [fop EXCEPT ![u] = FriendOp(name, friend_id)]
    /\ fself' = [fself EXCEPT ![u] = users[u]]
    /\ fret' = [fret EXCEPT ![u] = NotCalled]
    /\ foverlap' = [v \in Users |-> IF v = u THEN \E w \in Users \ {u} : fpc[w] # "idle"
                                              ELSE foverlap[v] \/ fpc[v] # "idle"]

\* The operation of user u returns ret.
ReturnFriendOp(u, ret) ==
    /\ fpc' = [fpc EXCEPT ![u] = "idle"]
    /\ fret' = [fret EXCEPT ![u] = ret]
    /\ flog' = Append(flog, [name |-> fop[u].name, user |-> u,
                             friend_id |-> fop[u].friend_id, ret |-> ret])

\* User::add_friend(&self, friend_id), lines 153-233.
add_friend(u, friend_id) ==
    /\ BeginFriendOp(u, "add_friend", friend_id)
    /\ UNCHANGED <<notFriends, users, flog>>

\* User::remove_friend(&self, friend_id), lines 235-342.
remove_friend(u, friend_id) ==
    /\ BeginFriendOp(u, "remove_friend", friend_id)
    /\ UNCHANGED <<notFriends, users, flog>>

\* Lines 155-162 and 237-239: the friend is found (every user has a
\* document), the affinity is looked up in the loaded &self, and the match on
\* its relationship returns the error or goes on to the first update_one.
find_affinity(u) ==
    /\ fpc[u] = "find"
    /\ LET affinity == find(fself[u], fop[u].friend_id)
           fails ==
               IF fop[u].name = "add_friend"
               THEN IF ~affinity.some THEN ""
                    ELSE IF affinity.relationship = "Friend" THEN "AlreadyFriends"
                    ELSE IF affinity.relationship = "Blocked" THEN "Blocked"
                    ELSE IF affinity.relationship = "Requested" THEN "AlreadyRequested"
                    ELSE ""
               ELSE IF ~affinity.some THEN "NotFound"
                    ELSE IF affinity.relationship = "Blocked" THEN "Blocked"
                    ELSE ""
       IN IF fails # ""
          THEN ReturnFriendOp(u, Error(fails))
          ELSE /\ fpc' = [fpc EXCEPT ![u] = "update_self"]
               /\ UNCHANGED <<fret, flog>>
    /\ UNCHANGED <<notFriends, users, fop, fself, foverlap>>

\* What the operation's update_one calls do to the affinities of a document
\* with respect to the other user: add_friend sets Friend when &self held
\* Pending (lines 164-198) and pushes otherwise (lines 201-229, Requested
\* to self and Pending to the friend); remove_friend pulls (lines 241-335).
update_one(u, affinities, other, pushed) ==
    IF fop[u].name = "remove_friend" THEN pull(affinities, other)
    ELSE IF find(fself[u], fop[u].friend_id).some
         THEN set_relationship(affinities, other, "Friend")
         ELSE push(affinities, Affinity(other, pushed))

\* The first update_one: the document whose id is self.id.
update_self(u) ==
    /\ fpc[u] = "update_self"
    /\ users' = [users EXCEPT ![u] = update_one(u, @, fop[u].friend_id, "Requested")]
    /\ fpc' = [fpc EXCEPT ![u] = "update_friend"]
    /\ UNCHANGED <<notFriends, fop, fself, fret, flog, foverlap>>

\* The second update_one: the document whose id is friend_id; then Ok(()).
update_friend(u) ==
    /\ fpc[u] = "update_friend"
    /\ users' = [users EXCEPT ![fop[u].friend_id] = update_one(u, @, u, "Pending")]
    /\ ReturnFriendOp(u, OkUnit)
    /\ UNCHANGED <<notFriends, fop, fself, foverlap>>

NextFriends ==
    \/ \E u \in Users, friend_id \in Users : add_friend(u, friend_id)
    \/ \E u \in Users, friend_id \in Users : remove_friend(u, friend_id)
    \/ \E u \in Users : find_affinity(u)
    \/ \E u \in Users : update_self(u)
    \/ \E u \in Users : update_friend(u)

(***************************************************************************)
(* The frame codec: encode and decode (services/encryption.rs).            *)
(***************************************************************************)
\* longest buffer handed to encode.
MaxLen == 3
\* the byte values of the buffers.
Bytes == {0, 1}
Keys256 == {"K1", "K2"}
\* random_number(96): the number of bytes encode draws for the nonce.
NONCE_BYTES == 96
\* the nonce length of Aes256Gcm (AesGcm<Aes256, U12>), in bytes.
NonceSize == 12

\* the byte strings of length 0..n over Bytes.
BytesUpTo(n) == UNION {[1..k -> Bytes] : k \in 0..n}

RECURSIVE Sum(_)
Sum(bytes) == IF bytes = <<>> THEN 0 ELSE Head(bytes) + Sum(Tail(bytes))

\* What a call returns, or that it panicked.
Bytes_(bytes) == [panics |-> FALSE, bytes |-> bytes]
Panic == [panics |-> TRUE, bytes |-> <<>>]

\* ZlibEncoder::new(buffer, Compression::best()).finish(): the zlib header
\* of level 9, the data, and the Adler-32 checksum of the data.
ZlibEncoder(bytes) == <<120, 218>> \o bytes \o <<(1 + Sum(bytes)) % 65521>>

\* ZlibDecoder::read_to_end(..).unwrap(): the data of a well-formed stream;
\* a bad header or checksum is an error, which unwrap turns into a panic.
ZlibDecoder(bytes) ==
    IF /\ Len(bytes) >= 3
       /\ SubSeq(bytes, 1, 2) = <<120, 218>>
       /\ bytes[Len(bytes)] = (1 + Sum(SubSeq(bytes, 3, Len(bytes) - 1))) % 65521
    THEN Bytes_(SubSeq(bytes, 3, Len(bytes) - 1))
    ELSE Panic

\* The keystream byte of a key and a nonce at position i.
Keystream(key, n, i) == (IF key = "K1" THEN 1 ELSE 2) + Sum(n) + i
\* The authentication tag of a ciphertext under a key and a nonce.
Tag(key, n, bytes) == (Keystream(key, n, 0) + Sum(bytes)) % 251

\* Nonce::from_slice (GenericArray::from_slice): the slice must have exactly
\* the nonce length, or the call panics.
from_slice(bytes) == IF Len(bytes) = NonceSize THEN Bytes_(bytes) ELSE Panic

\* Aes256Gcm::encrypt(nonce, plaintext).unwrap(): ciphertext, then the tag.
encrypt_(key, n, plaintext) ==
    LET ciphertext == [i \in 1..Len(plaintext) |->
                          (plaintext[i] + Keystream(key, n, i)) % 256]
    IN ciphertext \o <<Tag(key, n, ciphertext)>>

\* Aes256Gcm::decrypt(nonce, data).unwrap(): the tag is checked, a wrong tag
\* is an error, which unwrap turns into a panic.
decrypt(key, n, data) ==
    IF data = <<>> THEN Panic
    ELSE LET ciphertext == SubSeq(data, 1, Len(data) - 1)
         IN IF data[Len(data)] # Tag(key, n, ciphertext) THEN Panic
            ELSE Bytes_([i \in 1..Len(ciphertext) |->
                            (ciphertext[i] + 256
                                 - (Keystream(key, n, i) % 256)) % 256])

\* encode(buffer, compress, encrypt), lines 52-78: compress first, then
\* encrypt under a fresh nonce of random_number(96) and put the nonce in
\* front of the ciphertext.
encode(bytes, c, key, nonce_bytes) ==
    LET data == IF c THEN ZlibEncoder(bytes) ELSE bytes
    IN IF key = None THEN Bytes_(data)
       ELSE IF from_slice(nonce_bytes).panics THEN Panic
       ELSE Bytes_(nonce_bytes \o encrypt_(key, from_slice(nonce_bytes).bytes, data))

\* Vec::split_off(at): panics when at > len.
split_off(bytes, at) ==
    IF at > Len(bytes) THEN Panic ELSE Bytes_(SubSeq(bytes, at + 1, Len(bytes)))

\* decode(buffer, compress, encrypt), lines 80-101: split the first 96
\* bytes off as the nonce, decrypt the rest, then decompress.
decode(bytes, c, key) ==
    IF key = None
    THEN IF c THEN ZlibDecoder(bytes) ELSE Bytes_(bytes)
    ELSE IF split_off(bytes, NONCE_BYTES).panics THEN Panic
    ELSE LET n == from_slice(SubSeq(bytes, 1, NONCE_BYTES))
             decrypted == decrypt(key, n.bytes, split_off(bytes, NONCE_BYTES).bytes)
         IN IF n.panics \/ decrypted.panics THEN Panic
            ELSE IF c THEN ZlibDecoder(decrypted.bytes) ELSE decrypted

\* The nonces random_number(96) may return (two of them).
Nonces == {[i \in 1..NONCE_BYTES |-> b] : b \in Bytes}

InitCodec ==
    /\ buffer = <<>>
    /\ compress = FALSE
    /\ encrypt = None
    /\ nonce = <<>>
    /\ encoded = <<>>
    /\ decoded = <<>>
    /\ cpc = "start"

\* Any buffer, flag, key presence and nonce.
InitAnyFrame ==
    /\ buffer \in BytesUpTo(MaxLen)
    /\ compress \in BOOLEAN
    /\ encrypt \in Keys256 \cup {None}
    /\ nonce \in Nonces
    /\ encoded = <<>>
    /\ decoded = <<>>
    /\ cpc = "start"

\* The sender calls encode.
encode_frame ==
    /\ cpc = "start"
    /\ LET out == encode(buffer, compress, encrypt, nonce)
       IN /\ cpc' = IF out.panics THEN "panicked" ELSE "encoded"
          /\ encoded' = out.bytes
    /\ UNCHANGED <<notCodec, buffer, compress, encrypt, nonce, decoded>>

\* The receiver calls decode on the frame with the same flag and key.
decode_frame ==
    /\ cpc = "encoded"
    /\ LET out == decode(encoded, compress, encrypt)
       IN /\ cpc' = IF out.panics THEN "panicked" ELSE "decoded"
          /\ decoded' = out.bytes
    /\ UNCHANGED <<notCodec, buffer, compress, encrypt, nonce, encoded>>

NextCodec == encode_frame \/ decode_frame

(***************************************************************************)
(* The guards of the session registry (rapid/src/socket.rs).  The registry *)
(* is a DashMap: get returns a Ref and get_mut a RefMut, each a guard that *)
(* keeps a lock on the entry's shard until it is dropped; remove waits    *)
(* for the guards on the entry to be dropped.                              *)
(***************************************************************************)
MaxPackets == 3

\* What the read loop takes from the stream: a Heartbeat frame, any other
\* binary frame, or a frame that is neither binary nor Close.
Packets == {"Heartbeat", "Binary", "Text"}

InitGuards ==
    /\ slot = [c \in Conns |-> FALSE]
    /\ holds = [c \in Conns |-> "none"]
    /\ loop = [c \in Conns |-> "none"]
    /\ watch = [c \in Conns |-> "none"]
    /\ taken = 0

\* start_client up to the read loop (lines 241-300): the supervisor is
\* spawned, the session inserted, and the loop awaits read.next().
accept(c) ==
    /\ loop[c] = "none"
    /\ slot' = [slot EXCEPT ![c] = TRUE]
    /\ loop' = [loop EXCEPT ![c] = "read.next"]
    /\ watch' = [watch EXCEPT ![c] = "waiting"]
    /\ UNCHANGED <<notGuards, holds, taken>>

\* The read loop takes a frame (lines 301-320).  A Heartbeat goes to the
\* Heartbeat arm of handle_packet (lines 369-371): clients.get(user_id)
\* .unwrap() returns a Ref, or panics when the session is gone, and the loop
\* then awaits heartbeat_tx.send(()).  Any other binary frame is decoded and
\* handled; the RefMut of the Identify and GetId arms is taken and dropped
\* without an await in between.  A frame that is neither binary nor Close
\* removes the session (lines 315-320).
take(c, packet) ==
    /\ loop[c] = "read.next"
    /\ taken < MaxPackets
    /\ taken' = taken + 1
    /\ CASE packet = "Heartbeat" ->
              /\ loop' = [loop EXCEPT ![c] = IF slot[c] THEN "heartbeat_tx.send"
                                                        ELSE "panicked"]
              /\ holds' = [holds EXCEPT ![c] = IF slot[c] THEN "Ref" ELSE "none"]
              /\ slot' = slot
         [] packet = "Binary" ->
              /\ loop' = [loop EXCEPT ![c] = "handle_packet"]
              /\ UNCHANGED <<slot, holds>>
         [] packet = "Text" ->
              /\ slot' = [slot EXCEPT ![c] = FALSE]
              /\ UNCHANGED <<loop, holds>>
    /\ UNCHANGED <<notGuards, watch>>

\* The Heartbeat arm after its await (lines 371-373): the result of the send
\* is unwrapped, which panics once the supervisor has dropped the receiver;
\* the event is serialized and the Ref `client` dropped at the end of the
\* arm.  handle_packet returns to line 309.
heartbeat_sent(c) ==
    /\ loop[c] = "heartbeat_tx.send"
    /\ loop' = [loop EXCEPT ![c] = IF watch[c] = "done" THEN "panicked"
                                                        ELSE "clients.get"]
    /\ holds' = [holds EXCEPT ![c] = "none"]
    /\ UNCHANGED <<notGuards, slot, watch, taken>>

\* handle_packet returns from any other arm (line 308).
handled(c) ==
    /\ loop[c] = "handle_packet"
    /\ loop' = [loop EXCEPT ![c] = "clients.get"]
    /\ UNCHANGED <<notGuards, slot, holds, watch, taken>>

\* Line 309 and the call of line 310: clients.get(&id).unwrap() returns a
\* Ref, or panics when the session is gone, and the loop awaits
\* client.send(response) with the Ref `client` alive.
clients_get(c) ==
    /\ loop[c] = "clients.get"
    /\ loop' = [loop EXCEPT ![c] = IF slot[c] THEN "client.send" ELSE "panicked"]
    /\ holds' = [holds EXCEPT ![c] = IF slot[c] THEN "Ref" ELSE "none"]
    /\ UNCHANGED <<notGuards, slot, watch, taken>>

\* Line 310 after its await, and the end of the arm (line 311), where the
\* Ref `client` is dropped; the loop awaits read.next() again.
client_sent(c) ==
    /\ loop[c] = "client.send"
    /\ loop' = [loop EXCEPT ![c] = "read.next"]
    /\ holds' = [holds EXCEPT ![c] = "none"]
    /\ UNCHANGED <<notGuards, slot, watch, taken>>

\* The supervisor's timeout elapses (lines 281-288): it leaves its loop and
\* calls clients.remove.
elapsed(c) ==
    /\ watch[c] = "waiting"
    /\ watch' = [watch EXCEPT ![c] = "clients.remove"]
    /\ UNCHANGED <<notGuards, slot, holds, loop, taken>>

\* clients.remove of the supervisor (lines 289-291): it gets the entry's
\* shard once no guard is held on it.
removed(c) ==
    /\ watch[c] = "clients.remove"
    /\ holds[c] = "none"
    /\ slot' = [slot EXCEPT ![c] = FALSE]
    /\ watch' = [watch EXCEPT ![c] = "done"]
    /\ UNCHANGED <<notGuards, holds, loop, taken>>

NextGuards ==
    \/ \E c \in Conns : accept(c)
    \/ \E c \in Conns, packet \in Packets : take(c, packet)
    \/ \E c \in Conns : heartbeat_sent(c)
    \/ \E c \in Conns : handled(c)
    \/ \E c \in Conns : clients_get(c)
    \/ \E c \in Conns : client_sent(c)
    \/ \E c \in Conns : elapsed(c)
    \/ \E c \in Conns : removed(c)

vars == <<callVars, tokenVars, socketVars, nodeVars, storeVars, friendVars, codecVars,
          guardVars>>

InitStore == refused = FALSE

Init ==
    /\ InitCalls /\ InitToken /\ InitSocket /\ InitNodes /\ InitStore /\ InitFriends
    /\ InitCodec /\ InitGuards
Next == NextCalls
\* The call coordinator.
Spec == Init /\ [][Next]_vars

\* The call coordinator with a store whose connection may go down.
NextStorage == NextCalls \/ store_refuses \/ store_accepts
SpecStorage == Init /\ [][NextStorage]_vars

\* The affinities of the users collection.
InitStored ==
    /\ InitCalls /\ InitToken /\ InitSocket /\ InitNodes /\ InitStore /\ InitCodec
    /\ InitGuards /\ InitTasks /\ users \in Stored
SpecFriends == InitStored /\ [][NextFriends]_vars

\* The frame codec, on any buffer, flag and key presence.
InitFrames ==
    /\ InitCalls /\ InitToken /\ InitSocket /\ InitNodes /\ InitStore /\ InitFriends
    /\ InitGuards /\ InitAnyFrame
SpecCodec == InitFrames /\ [][NextCodec]_vars

\* The pending-request rendezvous.
SpecToken == Init /\ [][NextToken]_vars

\* The media-node directory.
SpecNodes == Init /\ [][NextNodes]_vars

\* The RPC connection engine.
SpecSocket == Init /\ [][NextSocket]_vars

\* The call coordinator with a call under way: U1 has started call 1 in
\* (S, C), U2 has joined it and left again, and the sessions that did so have
\* finished.  The store holds the witness create wrote and the record the
\* last update wrote; the snapshot task of the call is running.
InitLive ==
    /\ InitToken /\ InitSocket /\ InitNodes /\ InitStore /\ InitFriends /\ InitCodec
    /\ InitGuards
    /\ LET call == ActiveCall(1, <<"U1">>, "S", "C")
       IN /\ redis = [k \in Keys |->
                         IF k = WitnessKey("S", "C") THEN create_witness_value(call)
                         ELSE IF k = CanonicalKey(1) THEN write_redis_args(call)
                         ELSE Nil]
          /\ history = [i \in 1..(MaxCalls + 1) |-> IF i = 1 THEN call.members ELSE <<>>]
          /\ histTasks = {[space |-> "S", channel |-> "C", id |-> 1]}
          /\ active = {[id |-> 1, space_id |-> "S", channel_id |-> "C"]}
    /\ nextUlid = 1
    /\ opsBegun = [t \in Tasks |-> 0]
    /\ pc = [t \in Tasks |-> "idle"]
    /\ op = [t \in Tasks |-> NoOp]
    /\ self = [t \in Tasks |-> NoCall]
    /\ result = [t \in Tasks |-> Pending]
    /\ overlap = [t \in Tasks |-> {}]
    /\ sawActive = [t \in Tasks |-> {}]
    /\ snapshots = {}
SpecSessions == InitLive /\ [][NextCalls]_vars

\* The server's tasks are scheduled fairly and time passes; the clients owe
\* nothing.
FairSpecSocket ==
    /\ SpecSocket
    /\ \A c \in Conns :
          /\ WF_vars(insert(c)) /\ WF_vars(read_next(c)) /\ WF_vars(handle_packet(c))
          /\ WF_vars(write_pump(c)) /\ WF_vars(write_pump_fails(c))
          /\ WF_vars(supervisor_recv(c)) /\ WF_vars(supervisor_timeout(c))
          /\ WF_vars(emit_one(c))
    /\ WF_vars(tick)

\* The guards of the session registry.
SpecGuards == Init /\ [][NextGuards]_vars

\* The server's tasks are scheduled fairly; the media nodes owe nothing.
FairSpecToken ==
    /\ SpecToken
    /\ \A t \in Tasks : WF_vars(get_token_publish(t)) /\ WF_vars(get_token_wait(t))
    /\ WF_vars(nodes_consume)

(***************************************************************************)
(* Claims about the call coordinator.                                      *)
(***************************************************************************)
\* The last operation task t began was `name` and it has returned.
Finished(t, name) == pc[t] = "idle" /\ op[t].name = name

\* In this step the operation `name` of task t returns.
Returns(t, name) ==
    /\ pc'[t] = "idle"
    /\ op'[t].name = name
    /\ pc[t] # "idle" \/ opsBegun'[t] # opsBegun[t]

\* get_in_channel(space, channel) run to its end on the store as it is.
GetInChannelNow(space, channel) ==
    LET id == OptionString(GET(WitnessKey(space, channel)))
    IN IF ~id.ok THEN Err(id.err)
       ELSE IF ~id.some THEN OkNone
       ELSE OptionActiveCall(GET(CanonicalKey(id.val.id)))

\* C1: two concurrent create(s, c, ...) end in exactly one success and one
\* AlreadyExists, and at no moment is more than one call active in (s, c).
C1_ConcurrentCreateExclusive ==
    /\ \A s \in Spaces, c \in Channels : Cardinality(ActiveIn(s, c)) <= 1
    /\ \A t1, t2 \in Tasks :
          (/\ t1 # t2
           /\ t2 \in overlap[t1] /\ t1 \in overlap[t2]
           /\ Finished(t1, "create") /\ Finished(t2, "create"))
          => \E a, b \in {t1, t2} :
                a # b /\ result[a].ok /\ result[b] = Err("AlreadyExists")

\* C8: a create that runs alone while a call created earlier for the same
\* (s, c) has not been ended returns AlreadyExists and leaves the stored
\* call as it was.
C8_SecondCreateAlreadyExists ==
    \A t \in Tasks :
        (/\ Finished(t, "create")
         /\ overlap[t] = {}
         /\ sawActive[t] # {}
         /\ sawActive[t] \subseteq active)
        => /\ result[t] = Err("AlreadyExists")
           /\ redis[WitnessKey(op[t].space, op[t].channel)] # Nil
           /\ redis[WitnessKey(op[t].space, op[t].channel)].call.id
                  \in {k.id : k \in sawActive[t]}

\* What C9 says of the store once create by task t has returned Ok(call).
CreatePost(t) ==
    LET call == ActiveCall(result[t].val.id, <<op[t].user>>, op[t].space,
                           op[t].channel)
    IN /\ redis[CanonicalKey(call.id)] = write_redis_args(call)
       /\ redis[WitnessKey(call.space_id, call.channel_id)] = StringArgs(call.id)
       /\ GetInChannelNow(call.space_id, call.channel_id) = Ok(call)

\* C9: when create(s, c, u) returns Ok(call), the store holds the canonical
\* record under call:{call.id} with members = [u], the witness key holds
\* call.id, and get_in_channel(s, c) returns that call.
C9_CreateStoresRecordAndWitness ==
    [][\A t \in Tasks :
          (Returns(t, "create") /\ result'[t].ok) => CreatePost(t)']_vars

\* The stored record of the call that task t last operated on.
StoredMembers(t) ==
    IF redis[CanonicalKey(op[t].id)] = Nil THEN <<>>
    ELSE redis[CanonicalKey(op[t].id)].call.members

JoinPost(t) == result[t].ok /\ Contains(StoredMembers(t), op[t].user)
LeavePost(t) == result[t].ok /\ ~Contains(StoredMembers(t), op[t].user)

C11_LastLeaveDeletesWitness ==
    [][\A t \in Tasks :
          (/\ Returns(t, "leave_user")
           /\ Contains(self[t].members, op'[t].user)
           /\ self'[t].members = <<>>)
          => redis'[WitnessKey(op'[t].space, op'[t].channel)] = Nil]_vars

\* The members of the calls active in (space, channel), as the store has
\* them: the record under call:{id} or, before any update, the record that
\* create wrote.
ActiveMembers(space, channel) ==
    {u \in Users : \E k \in ActiveIn(space, channel) :
        IF redis[CanonicalKey(k.id)] # Nil
        THEN Contains(redis[CanonicalKey(k.id)].call.members, u)
        ELSE /\ redis[WitnessKey(space, channel)] # Nil
             /\ redis[WitnessKey(space, channel)].call.id = k.id
             /\ Contains(redis[WitnessKey(space, channel)].call.members, u)}

\* No other task is inside an operation as the leave_call of task t returns.
LeaveCallAlone(t) ==
    /\ op[t].name = "leave_call"
    /\ \A o \in Tasks \ {t} : pc[o] = "idle"

\* C12: leave_call by a member of the active call succeeds and leaves the
\* caller out of the call, which is ended (get_in_channel then returns
\* absent) when the caller was its last member; leave_call returns NotFound
\* only to a caller who is no member or when no call is active.
C12_LeaveCallRemovesMember ==
    [][\A t \in Tasks :
          (Returns(t, "leave_call") /\ LeaveCallAlone(t)) =>
              LET s == op[t].space
                  c == op[t].channel
                  u == op[t].user
              IN /\ u \in ActiveMembers(s, c) =>
                        /\ result'[t].ok
                        /\ u \notin ActiveMembers(s, c)'
                        /\ ActiveMembers(s, c) = {u} =>
                               GetInChannelNow(s, c)' = OkNone
                 /\ result'[t] = Err("NotFound") => u \notin ActiveMembers(s, c)]_vars

\* C13: as end(call) returns, get_in_channel(call.space, call.channel) returns
\* absent, and it goes on returning absent until a create for that (space,
\* channel) writes a call again.
C13_EndMakesChannelAbsent ==
    [][/\ \A t \in Tasks :
             Returns(t, "end") =>
                 GetInChannelNow(op[t].space, op[t].channel)' = OkNone
       /\ \A s \in Spaces, c \in Channels :
             (GetInChannelNow(s, c) = OkNone /\ GetInChannelNow(s, c)' # OkNone)
                 => \E t \in Tasks : /\ pc[t] = "create_set" /\ pc'[t] # "create_set"
                                     /\ op[t].space = s /\ op[t].channel = c]_vars

\* end has returned for a call that create had made, and get_in_channel of
\* its channel returns absent.
C13_Witness ==
    \E t \in Tasks :
        /\ Finished(t, "end")
        /\ self[t] # NoCall
        /\ history[self[t].id] # <<>>
        /\ GetInChannelNow(self[t].space_id, self[t].channel_id) = OkNone

(***************************************************************************)
(* Claims about the pending-request rendezvous.                            *)
(***************************************************************************)
\* get_token of task t has returned (or panicked).
TokenReturned(t) == tpc[t] = "idle" /\ tret[t] # NotReturned

\* The table's entry of task t's key is still the clone of t's request, and
\* a matching UserCreate has been consumed into it.
Answered(t) ==
    LET entry == REQUESTS[RequestKey(targ[t].call_id, targ[t].user_id)]
    IN entry.notify = request[t].notify /\ entry.data # None

\* C2: get_token publishes UserConnect{call_id, session_id = user_id, Offer}
\* and, a matching UserCreate consumed, returns the answer that event carried.
C2_GetTokenReturnsAnswer ==
    \A t \in Tasks :
        /\ tpc[t] = "wait" \/ TokenReturned(t)
            => UserConnect(targ[t].call_id, targ[t].user_id, targ[t].sdp) \in published
        /\ (TokenReturned(t) /\ Answered(t))
            => /\ tret[t].ok
               /\ tret[t].sdp
                    = REQUESTS[RequestKey(targ[t].call_id, targ[t].user_id)].data

\* C3: get_token never waits forever: it returns (with MediaTimeout when no
\* UserCreate arrives).
C3_GetTokenEventuallyReturns ==
    \A t \in Tasks : (tpc[t] = "wait") ~> (tpc[t] = "idle")

\* C14: the table's entry for (call_id, session_id) is there before the
\* UserConnect is published and is removed once its waiter has been resolved
\* or has given up: when no get_token is in progress the table is empty.
C14_PendingTableLifecycle ==
    /\ \A t \in Tasks :
          tpc[t] = "publish" =>
              REQUESTS[RequestKey(targ[t].call_id, targ[t].user_id)] # NoRequest
    /\ (\A t \in Tasks : tpc[t] = "idle") =>
          \A k \in RequestKeys : REQUESTS[k] = NoRequest

(***************************************************************************)
(* Claims about the media-node directory.                                  *)
(***************************************************************************)
\* C18: a sweep removes every node whose last Ping (or Description) is more
\* than NODE_TIMEOUT old and no other node, and a node in the directory is
\* never older than NODE_TIMEOUT by a whole SWEEP_PERIOD or more without
\* the sweep that removes it being due.
C18_SweeperEvictsStaleNodes ==
    [][/\ sleepUntil' # sleepUntil =>
             \A n \in NodeIds :
                 AVAILABLE_NODES[n].present =>
                     (AVAILABLE_NODES'[n].present
                          <=> ~(AVAILABLE_NODES[n].last_ping + 10000 < now))
       /\ \A n \in NodeIds :
             AVAILABLE_NODES'[n].present =>
                 \/ now' - AVAILABLE_NODES'[n].last_ping < 10000 + 1000
                 \/ /\ now' - AVAILABLE_NODES'[n].last_ping = 10000 + 1000
                    /\ now' = sleepUntil']_vars

\* The sweeper has removed a node, and another node that has pinged is in
\* the directory at (or past) its deadline, waiting for the sweep.
C18_Witness ==
    /\ "N1" \in swept
    /\ ~AVAILABLE_NODES["N1"].present
    /\ AVAILABLE_NODES["N2"].present
    /\ now > NODE_TIMEOUT + AVAILABLE_NODES["N2"].last_ping - Tick
    /\ AVAILABLE_NODES["N2"].last_ping > 0

(***************************************************************************)
(* Properties of the RPC connection engine.                                *)
(***************************************************************************)
\* the frames handed to the write pump of a connection, in their order.
Outbound(c) == wire[c] \o socket[c].queue

\* C4: every Response or Error frame that answers an inbound Message{id=X},
\* whether its method is registered or not, carries id=X.
C4_ResponseCorrelation ==
    \A c \in Conns : \A i \in DOMAIN Outbound(c) :
        LET f == Outbound(c)[i]
        IN (f.req.id # "" /\ f.type \in {"Response", "Error"}) => f.id = f.req.id

\* C5: per connection, the response frames handed to the write pump, and the
\* frames it has delivered, are in the order in which their request frames
\* were received, whatever else is interleaved.
C5_ResponseOrder ==
    \A c \in Conns : \A i, j \in DOMAIN Outbound(c) :
        (i < j /\ Outbound(c)[i].req.n > 0 /\ Outbound(c)[j].req.n > 0)
            => Outbound(c)[i].req.n < Outbound(c)[j].req.n

\* Two answers delivered on a connection with a fanout event between them,
\* the second one from a handler that was awaited.
C5_Witness ==
    \E c \in Conns : \E i, j, k \in DOMAIN wire[c] :
        /\ i < j /\ j < k
        /\ wire[c][i].req.n = 1
        /\ wire[c][j].type = "Event"
        /\ wire[c][k].req.n = 2 /\ wire[c][k].type = "Response"

\* C6: a session whose client has sent no Heartbeat for longer than
\* HEARTBEAT_TIMEOUT is out of the registry and its outbound channel is
\* closed, and no frame answers a request that arrived after the eviction.
C6_HeartbeatEviction ==
    \A c \in Conns :
        /\ idle[c] > HEARTBEAT_TIMEOUT => (~clients[c].present /\ socket[c].closed)
        /\ evictedAt[c] >= 0 =>
              \A i \in DOMAIN Outbound(c) : Outbound(c)[i].req.n <= evictedAt[c]

\* A session evicted by the supervisor whose client then sent a Message: the
\* read loop took it and died on it, and nothing was sent.
C6_Witness ==
    \E c \in Conns :
        /\ idle[c] > HEARTBEAT_TIMEOUT
        /\ evictedAt[c] >= 0
        /\ cur[c].kind = "Message" /\ cur[c].n > evictedAt[c]
        /\ reader[c] = "panicked"

\* C7: once the read loop of a connection has ended, its session is out of
\* the registry and its outbound channel is closed.
C7_RemovedWhenReadLoopEnds ==
    \A c \in Conns :
        reader[c] = "ended" => (~clients[c].present /\ socket[c].closed)

\* C15: the user of a session is set at most once: once an Identify has
\* bound the session to a user, no later frame binds it to another.
C15_UserSetOnce ==
    [][\A c \in Conns :
          (clients[c].present /\ clients[c].user # None /\ clients'[c].present)
              => clients'[c].user = clients[c].user]_vars

\* In this step a frame of the given type is handed to connection c's
\* outbound channel.
Enqueued(c, type) ==
    /\ Len(socket'[c].queue) = Len(socket[c].queue) + 1
    /\ socket'[c].queue = Append(socket[c].queue, socket'[c].queue[Len(socket'[c].queue)])
    /\ socket'[c].queue[Len(socket'[c].queue)].type = type

\* the frame handed to connection c's outbound channel in this step.
NewFrame(c) == socket'[c].queue[Len(socket'[c].queue)]

Events(c) ==
    Cardinality({i \in DOMAIN Outbound(c) : Outbound(c)[i].type = "Event"}) + emits[c]

\* C17: emit_to_id(u, e) hands e exactly once to every registered session
\* whose user is u and to no other session: the call spawns one send for
\* each such session and none for any other, and a spawned send puts one
\* event on the channel of its session (unless that has been closed).
C17_EmitToUser ==
    [][/\ emitted' # emitted =>
             \A c \in Conns :
                 emits'[c] = emits[c] +
                     (IF /\ clients[c].present
                         /\ clients[c].user = emitted'[Len(emitted')]
                      THEN 1 ELSE 0)
       /\ \A c \in Conns :
             emits'[c] < emits[c] =>
                 /\ emits'[c] = emits[c] - 1
                 /\ socket[c].closed \/ Enqueued(c, "Event")
       /\ \A c \in Conns : Events(c)' > Events(c) => emitted' # emitted]_vars

\* An event for U1 has reached the session of U1 and not the registered
\* session of U2.
C17_Witness ==
    \E c, d \in Conns :
        /\ clients[c].present /\ clients[c].user = "U1"
        /\ clients[d].present /\ clients[d].user = "U2"
        /\ emitted = <<"U1">>
        /\ \E i \in DOMAIN wire[c] : wire[c][i].type = "Event"
        /\ Events(d) = 0


\* In this step connection c's read loop finishes handling a Message frame
\* that names a registered method.
MethodReturns(c) ==
    /\ reader[c] = "handle_packet"
    /\ reader'[c] # "handle_packet"
    /\ cur[c].kind = "Message"
    /\ cur[c].method \in methods

C20_HandlerFailureContained ==
    [][\A c \in Conns :
          (MethodReturns(c) /\ clients[c].present /\ ~socket[c].closed) =>
              /\ Len(socket'[c].queue) = Len(socket[c].queue) + 1
              /\ NewFrame(c).type \in {"Response", "Error"}
              /\ NewFrame(c).req.n = cur[c].n
              /\ reader'[c] = "reading"
              /\ clients'[c].present]_vars


\* In this step connection c's read loop finishes handling a frame of the
\* given kind on a session that is registered with an open outbound channel.
Handles(c, kind) ==
    /\ reader[c] = "handle_packet"
    /\ reader'[c] # "handle_packet"
    /\ cur[c].kind = kind
    /\ clients[c].present
    /\ ~socket[c].closed

\* In this step connection c is handed an answer that reports an error.
ErrorAnswer(c) ==
    \/ Enqueued(c, "Error")
    \/ Enqueued(c, "Response") /\ NewFrame(c).payload \in {<<"error">>, <<"Unauthorized">>}

\* C21: an error answer does not end the connection.  An Identify with a
\* refused token is answered Unauthorized and a call of an unknown method
\* InvalidMethod; and whenever the read loop answers a request with an
\* error, the session stays registered with the same user and request-ids,
\* its outbound channel stays open and the read loop reads on.
C21_ErrorAnswerKeepsConnection ==
    [][\A c \in Conns :
          /\ (Handles(c, "Identify") /\ ~authenticate(cur[c].token).ok) =>
                 /\ Enqueued(c, "Error")
                 /\ NewFrame(c).payload = <<"Unauthorized">>
          /\ (Handles(c, "Message") /\ cur[c].method \notin methods) =>
                 /\ Enqueued(c, "Error")
                 /\ NewFrame(c).payload = <<"InvalidMethod">>
          /\ ((Handles(c, "Identify") \/ Handles(c, "Message")) /\ ErrorAnswer(c)) =>
                 /\ clients'[c] = clients[c]
                 /\ ~socket'[c].closed
                 /\ reader'[c] = "reading"]_vars

\* A session identified as U1 has had a later Identify refused: it has been
\* answered Unauthorized, is still U1's, and its read loop is reading.
C21_Witness ==
    \E c \in Conns :
        /\ clients[c].present
        /\ clients[c].user = "U1"
        /\ reader[c] = "reading"
        /\ \E i \in DOMAIN Outbound(c) :
              /\ Outbound(c)[i].type = "Error"
              /\ Outbound(c)[i].payload = <<"Unauthorized">>
              /\ Outbound(c)[i].req.n = 2


\* In this step an operation of task t returns to its caller.
ReturnsNow(t) ==
    /\ pc'[t] = "idle"
    /\ pc[t] # "idle" \/ opsBegun'[t] # opsBegun[t]

\* C22: a store failure is returned to the caller as an error and ends no
\* task: no task that runs a coordinator operation panics, and an operation
\* that returns from a step in which the store refused its command returns
\* the store's error and has changed nothing in the store.
C22_StoreFailureReturned ==
    [][\A t \in Tasks :
          /\ pc'[t] # "panicked"
          /\ (refused /\ ReturnsNow(t) /\ pc[t] # "create_history") =>
                 /\ ~result'[t].ok
                 /\ result'[t].err = "IoError"
                 /\ redis' = redis]_vars


\* the entries a document's affinities hold for the user `other`.
Entries(affinities, other) == SelectSeq(affinities, LAMBDA a : a.id = other)

\* C23: the friend state machine, for an operation of user u on another
\* user that ran with no other operation in between.  From no affinity on
\* either side add_friend leaves the caller with Requested and the friend
\* with Pending; add_friend by the user holding Pending makes both Friend;
\* remove_friend between friends removes both entries; add_friend by a user
\* holding Friend, Requested or Blocked returns AlreadyFriends,
\* AlreadyRequested or Blocked and leaves the collection as it was.
C23_FriendStateMachine ==
    [][\A u \in Users :
          LET f == fop[u].friend_id
              name == fop[u].name
              mine == Entries(fself[u], f)
              theirs == Entries(users[f], u)
              after(a, b) ==
                  /\ fret'[u] = [ok |-> TRUE, err |-> ""]
                  /\ Entries(users'[u], f) = a
                  /\ Entries(users'[f], u) = b
              refused_with(e) ==
                  /\ fret'[u] = [ok |-> FALSE, err |-> e]
                  /\ users' = users
                  /\ users[u] = fself[u]
              one(id, relationship) == <<[id |-> id, relationship |-> relationship]>>
          IN (fpc[u] # "idle" /\ fpc'[u] = "idle" /\ f # u /\ ~foverlap[u]) =>
                /\ (name = "add_friend" /\ mine = <<>> /\ theirs = <<>>) =>
                       after(one(f, "Requested"), one(u, "Pending"))
                /\ (name = "add_friend" /\ mine = one(f, "Pending")
                        /\ theirs = one(u, "Requested")) =>
                       after(one(f, "Friend"), one(u, "Friend"))
                /\ (name = "remove_friend" /\ mine = one(f, "Friend")
                        /\ theirs = one(u, "Friend")) =>
                       after(<<>>, <<>>)
                /\ (name = "add_friend" /\ mine = one(f, "Friend")) =>
                       refused_with("AlreadyFriends")
                /\ (name = "add_friend" /\ mine = one(f, "Requested")) =>
                       refused_with("AlreadyRequested")
                /\ (name = "add_friend" /\ mine = one(f, "Blocked")) =>
                       refused_with("Blocked")]_vars

\* U1 has added U2, U2 has added U1 and U1 has removed U2, each operation
\* returning Ok before the next began, and no affinity is left.
C23_Witness ==
    /\ Len(flog) = 3
    /\ flog[1] = [name |-> "add_friend", user |-> "U1", friend_id |-> "U2",
                  ret |-> [ok |-> TRUE, err |-> ""]]
    /\ flog[2] = [name |-> "add_friend", user |-> "U2", friend_id |-> "U1",
                  ret |-> [ok |-> TRUE, err |-> ""]]
    /\ flog[3] = [name |-> "remove_friend", user |-> "U1", friend_id |-> "U2",
                  ret |-> [ok |-> TRUE, err |-> ""]]
    /\ \A u \in Users : users[u] = <<>> /\ ~foverlap[u]

\* C24: decode(encode(b, c, k), c, k) = b for every buffer b, flag c and key
\* presence k: neither call panics, and what decode returns is b.
C24_CodecRoundTrip ==
    /\ cpc # "panicked"
    /\ cpc = "decoded" => decoded = buffer

\* In this step the heartbeat supervisor of connection c removes its session.
SupervisorRemoves(c) ==
    /\ supervisor[c] = "waiting"
    /\ supervisor'[c] = "done"
    /\ clients[c].present

\* C25: the supervisor removes no session whose client has sent its
\* Heartbeat frames less than HEARTBEAT_TIMEOUT apart (the first one less
\* than HEARTBEAT_TIMEOUT after the connection was accepted), and every
\* Heartbeat frame read on a registered session is answered by one
\* Heartbeat event and gives the supervisor one tick.
C25_HeartbeatKeepsSession ==
    [][\A c \in Conns :
          /\ SupervisorRemoves(c) => quiet[c] >= HEARTBEAT_TIMEOUT
          /\ (/\ reader[c] = "reading"
              /\ inbound[c] # <<>>
              /\ inbound'[c] = Tail(inbound[c])
              /\ Head(inbound[c]).kind = "Heartbeat"
              /\ clients[c].present) =>
                 /\ Enqueued(c, "HEARTBEAT")
                 /\ heartbeat'[c].ticks = heartbeat[c].ticks + 1]_vars

\* In this step connection c's read loop takes the next frame of its stream.
ReadsFrame(c) ==
    /\ reader[c] = "reading"
    /\ inbound[c] # <<>>
    /\ inbound'[c] = Tail(inbound[c])

\* Connection c's session was removed because of a non-binary frame: the
\* connection was accepted, its session is gone, and not by the supervisor.
ClosedByFrame(c) ==
    /\ reader[c] \notin {"none", "registering"}
    /\ ~clients[c].present
    /\ ~heartbeat[c].tx
    /\ evictedAt[c] = -1

\* C26: a non-binary frame other than Close removes the session and closes
\* its outbound channel, and once that has happened the read loop takes no
\* further frame of the connection; after a Close frame nothing is left for
\* the read loop but to end.
C26_NonBinaryClosesConnection ==
    [][\A c \in Conns :
          /\ (ReadsFrame(c) /\ ~Binary(Head(inbound[c]))
                            /\ Head(inbound[c]).kind # "Close") =>
                 /\ ~clients'[c].present
                 /\ clients[c].present => socket'[c].closed
          /\ ClosedByFrame(c) => ~ReadsFrame(c)
          /\ (ReadsFrame(c) /\ Head(inbound[c]).kind = "Close") =>
                 /\ inbound'[c] = <<>>
                 /\ stream'[c] = "closed"
                 /\ reader'[c] = "reading"]_vars

\* C27: the step in which the read loop takes a binary frame that does not
\* decode as a request ends the read loop: the loop neither waits for
\* another frame nor is inside handle_packet afterwards.  The shutdown of the
\* write pump and the removal of the session are claimed as consequences of
\* that exit.
C27_MalformedFrameEndsLoop ==
    [][\A c \in Conns :
          (ReadsFrame(c) /\ Head(inbound[c]).kind = "Malformed") =>
              reader'[c] \notin {"reading", "handle_packet"}]_vars

\* C28: per accepted connection, Hello is the first frame handed to the
\* write pump; the session is registered after Hello was sent and before the
\* heartbeat supervisor is started; and whenever the supervisor's timeout
\* elapses, the session is in the registry and is removed from it.
C28_SetupOrder ==
    [][\A c \in Conns :
          /\ Outbound(c) # <<>> => Outbound(c)[1].type = "HELLO"
          /\ (~clients[c].present /\ clients'[c].present) =>
                 /\ Outbound(c) # <<>>
                 /\ supervisor[c] = "none"
          /\ (supervisor[c] = "none" /\ supervisor'[c] # "none") =>
                 clients[c].present
          /\ (supervisor[c] = "waiting" /\ supervisor'[c] = "done") =>
                 /\ clients[c].present
                 /\ ~clients'[c].present]_vars

\* In this step the consumer takes an event of the given kind for node n.
Consumes(kind, n) ==
    /\ bus # <<>>
    /\ bus' = Tail(bus)
    /\ Head(bus).event = kind
    /\ Head(bus).id = n

\* C29: a Description for a node that is in the directory changes nothing,
\* its last-ping included; a Ping for a node that is not in the directory
\* adds no entry; a Disconnect leaves the node out of the directory; and a
\* node enters the directory only in a step that takes a Description for it.
C29_NodeDirectoryUpdates ==
    [][\A n \in NodeIds :
          /\ (Consumes("Description", n) /\ AVAILABLE_NODES[n].present) =>
                 AVAILABLE_NODES' = AVAILABLE_NODES
          /\ (Consumes("Ping", n) /\ ~AVAILABLE_NODES[n].present) =>
                 AVAILABLE_NODES' = AVAILABLE_NODES
          /\ Consumes("Disconnect", n) => ~AVAILABLE_NODES'[n].present
          /\ (~AVAILABLE_NODES[n].present /\ AVAILABLE_NODES'[n].present) =>
                 Consumes("Description", n)]_vars

\* N1 was evicted by the sweeper and described again, and a second
\* Description for it has been taken since, which left its older last-ping.
C29_Witness ==
    /\ "N1" \in swept
    /\ seen = [event |-> "Description", id |-> "N1", known |-> TRUE]
    /\ AVAILABLE_NODES["N1"].present
    /\ AVAILABLE_NODES["N1"].last_ping < now

\* In this step the join_call of task t reaches join_user: a member list is
\* pushed to and written back.
JoinCallJoins(t) ==
    /\ op[t].name = "join_call"
    /\ pc[t] = "get"
    /\ self'[t] # self[t]

\* C30: no join_call adds a user-id that the call's member list already
\* holds.  join_call makes no membership test of its own, and no join_call
\* reaches join_user at all (JoinCallNeverJoins): get_in_channel fails on
\* the record that create keeps under the witness key.
C30_NoDoubleJoin ==
    [][\A t \in Tasks :
          JoinCallJoins(t) => ~Contains(self[t].members, op[t].user)]_vars

\* No join_call reaches join_user.
JoinCallNeverJoins == [][\A t \in Tasks : ~JoinCallJoins(t)]_vars

\* In this step a send spawned by emit_one fails: connection c's outbound
\* channel is closed.
FanoutSendFails(c) ==
    /\ emits[c] > 0
    /\ emits'[c] = emits[c] - 1
    /\ socket[c].closed

\* C31: when a fanout send to a session fails on a closed outbound channel,
\* the session is out of the registry afterwards, the sends spawned for the
\* other sessions stay as they were, and no task is ended by the failure.
C31_FailedSendDetachesSession ==
    [][\A c \in Conns :
          FanoutSendFails(c) =>
              /\ ~clients'[c].present
              /\ \A d \in Conns \ {c} : emits'[d] = emits[d]
              /\ reader' = reader
              /\ pump' = pump]_vars

\* C32: every active call has exactly one snapshot task, the one its create
\* spawned, and no snapshot task has written a snapshot for a call other
\* than the one whose create spawned it.
C32_OneSnapshotTaskPerCall ==
    /\ \A k \in active : Cardinality({h \in histTasks : h.id = k.id}) = 1
    /\ snapshots = {}

(***************************************************************************)
(* Claims about the guards of the session registry.                        *)
(***************************************************************************)
\* The awaits of a send: on the outbound channel (line 310) and on the
\* heartbeat channel (line 371).
AwaitsSend(c) == loop[c] \in {"client.send", "heartbeat_tx.send"}

\* C33: a read loop that is suspended in the await of a send, on the
\* outbound channel or on the heartbeat channel, holds no guard of the
\* session registry.
C33_NoGuardAcrossAwait == \A c \in Conns : AwaitsSend(c) => holds[c] = "none"

\* In this step the read loop of c panics.
LoopPanics(c) == reader[c] # "panicked" /\ reader'[c] = "panicked"

\* C34: the read loop of a connection never panics on a session that is
\* missing from the registry or on a closed outbound channel: when it panics,
\* its session was registered and its outbound channel open (the panic came
\* from the handler it awaited).
C34_LoopSurvivesMissingSession ==
    [][\A c \in Conns :
          LoopPanics(c) => clients[c].present /\ ~socket[c].closed]_vars

\* C35: the heartbeat supervisor of a connection whose tick channel has no
\* sender left (its session was removed by a non-binary frame) eventually
\* leaves its wait loop and terminates.
C35_SupervisorTerminates ==
    \A c \in Conns :
       (supervisor[c] = "waiting" /\ ~heartbeat[c].tx) ~> (supervisor[c] = "done")

(***************************************************************************)
(* Claims about concurrent sessions of the call coordinator.               *)
(***************************************************************************)
\* What a read of the canonical key of call id gives in store kv.
RecordOf(kv, id) ==
    IF kv[CanonicalKey(id)] = Nil THEN Err("NotFound")
    ELSE from_redis_value(BulkString(kv[CanonicalKey(id)]))

\* In this step task t runs join_user or leave_user on its own copy of a
\* call of which the store holds a record.
WritesMembers(t, name) ==
    /\ opsBegun'[t] = opsBegun[t] + 1
    /\ op'[t].name = name
    /\ RecordOf(redis, op'[t].id).ok
    /\ RecordOf(redis', op'[t].id).ok

\* The members of the record stored for call id in store kv.
MembersOf(kv, id) == RecordOf(kv, id).val.members

\* The last operation of session o was `name` for a user other than the one
\* session t is writing for in this step, on the same call.
OtherDid(o, t, name) ==
    /\ Finished(o, name)
    /\ op[o].id = op'[t].id
    /\ op[o].user # op'[t].user

\* C36: no member-list update is lost: when a session runs join_user or
\* leave_user for one user, on its own copy of the call, a user that another
\* session has joined and that is in the stored member list stays in it, and
\* a user that another session has removed and that is not in the stored
\* member list stays out of it.
C36_NoLostMemberUpdate ==
    [][\A t \in Tasks : \A o \in Tasks \ {t} :
          (WritesMembers(t, "join_user") \/ WritesMembers(t, "leave_user")) =>
              /\ (OtherDid(o, t, "join_user")
                    /\ Contains(MembersOf(redis, op[o].id), op[o].user)) =>
                     Contains(MembersOf(redis', op[o].id), op[o].user)
              /\ (OtherDid(o, t, "leave_user")
                    /\ ~Contains(MembersOf(redis, op[o].id), op[o].user)) =>
                     ~Contains(MembersOf(redis', op[o].id), op[o].user)]_vars

\* Task t is inside get_token, after its insertion into the table.
InGetToken(t) == tpc[t] \in {"publish", "wait"}

\* C37: a get_token that has not returned can still be resolved: its
\* notifier has been signalled, or it is the notifier of the table's entry
\* for its key, which a UserCreate for that key signals; an overlapping
\* get_token with the same key does not take that away.
C37_OverlappingGetTokenResolved ==
    \A t \in Tasks :
        InGetToken(t) =>
            \/ notify[request[t].notify]
            \/ REQUESTS[RequestKey(targ[t].call_id, targ[t].user_id)].notify
                  = request[t].notify

(***************************************************************************)
(* Claims about concurrent add_friend / remove_friend.                     *)
(***************************************************************************)
\* User a holds an affinity for b with this relationship.
Holds(a, b, relationship) ==
    \E i \in 1..Len(users[a]) : users[a][i] = Affinity(b, relationship)

\* Every operation so far was by a user on the other user, and has returned.
OnEachOther ==
    /\ \A u \in Users : fpc[u] = "idle"
    /\ \A i \in 1..Len(flog) : flog[i].friend_id # flog[i].user

\* C38: after any interleaving of add_friend and remove_friend by two users
\* on each other, each user holds at most one affinity for the other and
\* none for themselves, one holds Requested exactly when the other holds
\* Pending, and one holds Friend exactly when the other does.
C38_AffinitiesConsistent ==
    OnEachOther =>
        \A a \in Users : \A b \in Users \ {a} :
            /\ Len(Entries(users[a], b)) <= 1
            /\ Entries(users[a], a) = <<>>
            /\ Holds(a, b, "Requested") <=> Holds(b, a, "Pending")
            /\ Holds(a, b, "Friend") <=> Holds(b, a, "Friend")

(***************************************************************************)
(* Claims about the caller a method handler acts for.                      *)
(***************************************************************************)
\* C39: a method handler acts for the user its session authenticated as:
\* what the handler called by the read loop of connection c writes is
\* written for the user of c's session.
C39_HandlerActsForSessionUser ==
    [][\A c \in Conns :
          MethodReturns(c) =>
              \A w \in store' \ store : w[2] = clients[c].user]_vars

(***************************************************************************)
(* Claims about what the coordinator returns when the store accepts.       *)
(***************************************************************************)
\* In this step task t begins leave_user, which removes the last member of
\* its copy of the call.
LastLeaves(t) ==
    /\ opsBegun'[t] = opsBegun[t] + 1
    /\ op'[t].name = "leave_user"
    /\ self'[t].members = <<>>

\* C40: while the store accepts every command, join_user, leave_user and end
\* return Ok once their write or delete is applied, and a leave_user that
\* removes the last member goes on to end.
C40_WritesReturnOk ==
    [][\A t \in Tasks :
          ~refused =>
              /\ (Returns(t, "join_user") \/ Returns(t, "leave_user")
                    \/ Returns(t, "end")) => result'[t].ok
              /\ LastLeaves(t) => pc'[t] = "end"]_vars

====
